---- MODULE Spec2Model ----
(***************************************************************************)
(* The deserialization bridge of rbson (src/de/serde.rs): the Deserializer *)
(* over an owned Bson value, its sequence / map / enum / variant           *)
(* sub-bridges, and the generic decoder BsonVisitor that drives them.      *)
(*                                                                         *)
(* Conventions.  A Rust String is a sequence of one-character strings, so  *)
(* that parsing and formatting are computed digit by digit.  An integer    *)
(* payload is a record [neg, mag] with mag its decimal digits (no leading  *)
(* zero), so that 32- and 64-bit ranges are exact.  Option<T> is a         *)
(* sequence of length at most one.  Result<T, E> is [ok, val] or           *)
(* [ok, err, exp].                                                         *)
(***************************************************************************)
EXTENDS Integers, Sequences, FiniteSets, TLC

VARIABLES
    input,      \* ghost: the Bson value the session was built over
    visitor,    \* who drives the bridge: "BsonVisitor" or "Any" (an arbitrary target)
    pc,         \* position of the decode session
    de,         \* the root Deserializer {value: Option<Bson>, options}
    call,       \* Option: the visitor method the bridge invoked last, or the error it returned
    seq,        \* Option<SeqDeserializer> handed to the visitor
    map,        \* Option<MapDeserializer | Decimal128Access> handed to the visitor
    variant,    \* Option<EnumDeserializer>, then its VariantDeserializer
    acc,        \* BsonVisitor's local `values` / `doc`
    op,         \* ghost: the bridge / cursor / variant method called last
    newtype_name, \* ghost: the `name` argument of the last deserialize_newtype_struct
    prev,       \* ghost: the cursor method called before `op`
    ret,        \* Option: what the last cursor / variant method (or the whole decode) returned
    nkey,       \* ghost: number of next_key_seed calls made on `map`
    nval,       \* ghost: number of next_value_seed calls made on `map`
    yielded     \* ghost: the values popped from the cursor and wrapped in a Deserializer, in order

vars ==
    <<input, visitor, pc, de, call, seq, map, variant, acc, op, newtype_name, prev, ret, nkey, nval,
      yielded>>

----------------------------------------------------------------------------
(* Option and Result *)

None == <<>>
Some(x) == <<x>>

Ok(v) == [ok |-> TRUE, val |-> v]
Err(kind, exp) == [ok |-> FALSE, err |-> kind, exp |-> exp]

EndOfStream == Err("EndOfStream", <<>>)

----------------------------------------------------------------------------
(* Numbers: sign and decimal magnitude *)

Num(neg, mag) == [neg |-> neg, mag |-> mag]

RECURSIVE StripZeros(_)
StripZeros(ds) ==
    IF Len(ds) > 1 /\ ds[1] = 0 THEN StripZeros(Tail(ds)) ELSE ds

RECURSIVE LexLe(_, _)
LexLe(a, b) ==
    IF a = <<>> THEN TRUE
    ELSE IF a[1] # b[1] THEN a[1] < b[1]
    ELSE LexLe(Tail(a), Tail(b))

\* a <= b on magnitudes without leading zeros
MagLe(a, b) == Len(a) < Len(b) \/ (Len(a) = Len(b) /\ LexLe(a, b))

I32_MAX == <<2,1,4,7,4,8,3,6,4,7>>
I32_MIN_MAG == <<2,1,4,7,4,8,3,6,4,8>>
U32_MAX == <<4,2,9,4,9,6,7,2,9,5>>
I64_MAX == <<9,2,2,3,3,7,2,0,3,6,8,5,4,7,7,5,8,0,7>>
I64_MIN_MAG == <<9,2,2,3,3,7,2,0,3,6,8,5,4,7,7,5,8,0,8>>
U64_MAX == <<1,8,4,4,6,7,4,4,0,7,3,7,0,9,5,5,1,6,1,5>>

DigitChars == <<"0", "1", "2", "3", "4", "5", "6", "7", "8", "9">>
IsDigit(c) == \E d \in 1..10 : DigitChars[d] = c
DigitOf(c) == (CHOOSE d \in 1..10 : DigitChars[d] = c) - 1

\* <int>::from_str (core::num): an optional sign ('-' only for a signed type), then
\* one or more decimal digits, the value within the type's range.
from_str(s, signed, maxMag, minMag) ==
    IF s = <<>> THEN None
    ELSE LET sign == s[1] \in {"+", "-"}
             neg == s[1] = "-"
             digits == IF sign /\ (signed \/ ~neg) THEN Tail(s) ELSE s
         IN  IF sign /\ Len(s) = 1 THEN None
             ELSE IF \E i \in 1..Len(digits) : ~IsDigit(digits[i]) THEN None
             ELSE LET mag == StripZeros([i \in 1..Len(digits) |-> DigitOf(digits[i])])
                  IN  IF neg /\ signed
                      THEN IF MagLe(mag, minMag)
                           THEN Some(Num(mag # <<0>>, mag)) ELSE None
                      ELSE IF MagLe(mag, maxMag) THEN Some(Num(FALSE, mag)) ELSE None

parse_i32(s) == from_str(s, TRUE, I32_MAX, I32_MIN_MAG)
parse_i64(s) == from_str(s, TRUE, I64_MAX, I64_MIN_MAG)
parse_u32(s) == from_str(s, FALSE, U32_MAX, <<0>>)
parse_u64(s) == from_str(s, FALSE, U64_MAX, <<0>>)

\* <int>::to_string
to_string(n) ==
    (IF n.neg THEN <<"-">> ELSE <<>>) \o [i \in 1..Len(n.mag) |-> DigitChars[n.mag[i] + 1]]

----------------------------------------------------------------------------
(* The value model: Bson *)

Double(v) == [tag |-> "Double", payload |-> v]
String(v) == [tag |-> "String", payload |-> v]
Array(v) == [tag |-> "Array", payload |-> v]
Document(v) == [tag |-> "Document", payload |-> v]
Boolean(v) == [tag |-> "Boolean", payload |-> v]
Null == [tag |-> "Null", payload |-> <<>>]
Int32(v) == [tag |-> "Int32", payload |-> v]
Int64(v) == [tag |-> "Int64", payload |-> v]
UInt32(v) == [tag |-> "UInt32", payload |-> v]
UInt64(v) == [tag |-> "UInt64", payload |-> v]
Binary(subtype, bytes) == [tag |-> "Binary", payload |-> [subtype |-> subtype, bytes |-> bytes]]
DateTime(millis) == [tag |-> "DateTime", payload |-> millis]
Timestamp(time, increment) == [tag |-> "Timestamp", payload |-> [time |-> time, increment |-> increment]]
Decimal128(bytes) == [tag |-> "Decimal128", payload |-> [bytes |-> bytes]]

\* Document: an ordered mapping, a sequence of <<key, value>> with distinct keys
Keys(entries) == [i \in 1..Len(entries) |-> entries[i][1]]

----------------------------------------------------------------------------
(* Reserved keys *)

k_numberInt == <<"$", "n", "u", "m", "b", "e", "r", "I", "n", "t">>
k_numberLong == <<"$", "n", "u", "m", "b", "e", "r", "L", "o", "n", "g">>
k_numberUInt32 == <<"$", "n", "u", "m", "b", "e", "r", "U", "I", "n", "t", "3", "2">>
k_numberUInt64 == <<"$", "n", "u", "m", "b", "e", "r", "U", "I", "n", "t", "6", "4">>
k_numberDouble == <<"$", "n", "u", "m", "b", "e", "r", "D", "o", "u", "b", "l", "e">>
k_binary == <<"$", "b", "i", "n", "a", "r", "y">>
k_timestamp == <<"$", "t", "i", "m", "e", "s", "t", "a", "m", "p">>
k_date == <<"$", "d", "a", "t", "e">>
k_numberDecimal == <<"$", "n", "u", "m", "b", "e", "r", "D", "e", "c", "i", "m", "a", "l">>
k_numberDecimalBytes ==
    <<"$", "n", "u", "m", "b", "e", "r", "D", "e", "c", "i", "m", "a", "l", "B", "y", "t", "e", "s">>
k_base64 == <<"b", "a", "s", "e", "6", "4">>
k_subType == <<"s", "u", "b", "T", "y", "p", "e">>
k_t == <<"t">>
k_i == <<"i">>

MarkerKeys ==
    {k_numberInt, k_numberLong, k_numberUInt32, k_numberUInt64, k_numberDouble, k_binary,
     k_timestamp, k_date, k_numberDecimal, k_numberDecimalBytes}

UUID_NEWTYPE_NAME == "$__bson_private_uuid"

----------------------------------------------------------------------------
(* The extended-JSON fallback document of a non-native value *)

\* u8::from(BinarySubtype)
SubtypeByte(subtype) ==
    CASE subtype = "Generic" -> 0
      [] subtype = "Function" -> 1
      [] subtype = "BinaryOld" -> 2
      [] subtype = "UuidOld" -> 3
      [] subtype = "Uuid" -> 4
      [] subtype = "Md5" -> 5

HexChars == <<"0", "1", "2", "3", "4", "5", "6", "7", "8", "9", "a", "b", "c", "d", "e", "f">>

\* hex::encode of one byte
hex_encode(b) == <<HexChars[(b \div 16) + 1], HexChars[(b % 16) + 1]>>

B64Chars ==
    <<"A", "B", "C", "D", "E", "F", "G", "H", "I", "J", "K", "L", "M", "N", "O", "P",
      "Q", "R", "S", "T", "U", "V", "W", "X", "Y", "Z", "a", "b", "c", "d", "e", "f",
      "g", "h", "i", "j", "k", "l", "m", "n", "o", "p", "q", "r", "s", "t", "u", "v",
      "w", "x", "y", "z", "0", "1", "2", "3", "4", "5", "6", "7", "8", "9", "+", "/">>

\* base64::encode (standard alphabet, padded)
RECURSIVE base64_encode(_)
base64_encode(bytes) ==
    IF bytes = <<>> THEN <<>>
    ELSE LET n == Len(bytes)
             b1 == bytes[1]
             b2 == IF n >= 2 THEN bytes[2] ELSE 0
             b3 == IF n >= 3 THEN bytes[3] ELSE 0
             c1 == B64Chars[(b1 \div 4) + 1]
             c2 == B64Chars[((b1 % 4) * 16 + (b2 \div 16)) + 1]
             c3 == IF n >= 2 THEN B64Chars[((b2 % 16) * 4 + (b3 \div 64)) + 1] ELSE "="
             c4 == IF n >= 3 THEN B64Chars[(b3 % 64) + 1] ELSE "="
         IN  <<c1, c2, c3, c4>> \o
             (IF n > 3 THEN base64_encode(SubSeq(bytes, 4, n)) ELSE <<>>)

\* Bson::into_extended_document: the one-key document of a value with no native
\* counterpart in the visitor protocol
into_extended_document(value) ==
    CASE value.tag = "Binary" ->
            << <<k_binary,
                 Document(<< <<k_base64, String(base64_encode(value.payload.bytes))>>,
                             <<k_subType, String(hex_encode(SubtypeByte(value.payload.subtype)))>> >>)>> >>
      [] value.tag = "DateTime" ->
            << <<k_date, Document(<< <<k_numberLong, String(to_string(value.payload))>> >>)>> >>
      [] value.tag = "Timestamp" ->
            << <<k_timestamp,
                 Document(<< <<k_t, UInt32(value.payload.time)>>,
                             <<k_i, UInt32(value.payload.increment)>> >>)>> >>

----------------------------------------------------------------------------
(* Deserializer and its generic dispatch *)

\* DeserializerOptions {human_readable: Option<bool>}
DefaultOptions == [human_readable |-> None]

\* Deserializer::new_with_options
new_with_options(value, options) ==
    [kind |-> "Deserializer", value |-> Some(value), options |-> options]

\* Deserializer::new
new(value) == new_with_options(value, DefaultOptions)

\* Deserializer::is_human_readable
is_human_readable(self) ==
    IF self.options.human_readable = None THEN TRUE ELSE self.options.human_readable[1]

\* A visitor method invoked by the bridge with its argument, or ("Err", e) when the
\* bridge returned e without invoking the visitor.
VCall(m, arg) == [m |-> m, arg |-> arg]

SeqDeserializer(iter, len, options) ==
    [kind |-> "SeqDeserializer", iter |-> iter, len |-> len, options |-> options]

MapDeserializer(iter, value, len, options) ==
    [kind |-> "MapDeserializer", iter |-> iter, value |-> value, len |-> len,
     options |-> options]

\* MapDeserializer::new
MapDeserializer_new(doc) == MapDeserializer(doc, None, Len(doc), DefaultOptions)

\* Decimal128Access::new
Decimal128Access_new(d) == [kind |-> "Decimal128Access", decimal |-> d, visited |-> FALSE]

\* the fallback arm of deserialize_any for a Binary whose subtype is not Generic
BinaryFallbackLen == 2

\* <Deserializer as serde::Deserializer>::deserialize_any
Deserializer_deserialize_any(self) ==
    IF self.value = None THEN VCall("Err", EndOfStream)
    ELSE LET value == self.value[1] IN
      CASE value.tag = "Double" -> VCall("visit_f64", value.payload)
        [] value.tag = "String" -> VCall("visit_string", value.payload)
        [] value.tag = "Array" ->
              VCall("visit_seq", SeqDeserializer(value.payload, Len(value.payload), self.options))
        [] value.tag = "Document" ->
              VCall("visit_map", MapDeserializer(value.payload, None, Len(value.payload), self.options))
        [] value.tag = "Boolean" -> VCall("visit_bool", value.payload)
        [] value.tag = "Null" -> VCall("visit_unit", <<>>)
        [] value.tag = "Int32" -> VCall("visit_i32", value.payload)
        [] value.tag = "Int64" -> VCall("visit_i64", value.payload)
        [] value.tag = "UInt32" -> VCall("visit_u32", value.payload)
        [] value.tag = "UInt64" -> VCall("visit_u64", value.payload)
        [] value.tag = "Binary" /\ value.payload.subtype = "Generic" ->
              VCall("visit_byte_buf", value.payload.bytes)
        [] value.tag = "Binary" /\ value.payload.subtype # "Generic" ->
              VCall("visit_map",
                    MapDeserializer(into_extended_document(value), None, BinaryFallbackLen,
                                    self.options))
        [] value.tag = "Decimal128" -> VCall("visit_map", Decimal128Access_new(value.payload))
        [] OTHER ->
              LET doc == into_extended_document(value) IN
              VCall("visit_map", MapDeserializer(doc, None, Len(doc), self.options))

\* forward_to_deserialize!, the general arm: the request is passed to deserialize_any
forward_to_deserialize(self) == Deserializer_deserialize_any(self)

\* deserialize_bytes handing a stored String to the visitor as its bytes
Deserializer_deserialize_bytes_coerce(self) ==
    IF self.value # None /\ self.value[1].tag = "String"
    THEN VCall("visit_bytes", self.value[1].payload)
    ELSE Deserializer_deserialize_any(self)

\* Deserializer::deserialize_bytes
Deserializer_deserialize_bytes(self) == Deserializer_deserialize_any(self)

\* the requests the forward_to_deserialize! invocation of Deserializer lists
ForwardedRequests ==
    {"deserialize_bool", "deserialize_u8", "deserialize_u16", "deserialize_u32",
     "deserialize_u64", "deserialize_i8", "deserialize_i16", "deserialize_i32",
     "deserialize_i64", "deserialize_f32", "deserialize_f64", "deserialize_char",
     "deserialize_str", "deserialize_string", "deserialize_unit", "deserialize_seq",
     "deserialize_map", "deserialize_unit_struct", "deserialize_tuple_struct",
     "deserialize_struct", "deserialize_tuple", "deserialize_identifier",
     "deserialize_ignored_any", "deserialize_byte_buf"}

\* <Deserializer as serde::Deserializer>: a request other than option, enum and
\* newtype_struct
Deserializer_narrow(request, self) ==
    CASE request = "deserialize_any" -> Deserializer_deserialize_any(self)
      [] request = "deserialize_bytes" -> Deserializer_deserialize_bytes(self)
      [] request \in ForwardedRequests -> forward_to_deserialize(self)

\* deserialize_option taking the stored value before handing the bridge on
Deserializer_deserialize_option_take(self) ==
    IF self.value = None THEN VCall("Err", EndOfStream)
    ELSE IF self.value[1].tag = "Null" THEN VCall("visit_none", <<>>)
    ELSE VCall("visit_some", [self EXCEPT !.value = None])

\* <Deserializer as serde::Deserializer>::deserialize_option
Deserializer_deserialize_option(self) ==
    IF self.value = None THEN VCall("Err", EndOfStream)
    ELSE IF self.value[1].tag = "Null" THEN VCall("visit_none", <<>>)
    ELSE VCall("visit_some", self)

\* deserialize_newtype_struct handing a UUID binary's bytes straight to the visitor
Deserializer_deserialize_newtype_struct_bytes(self, name) ==
    IF name = UUID_NEWTYPE_NAME
    THEN IF self.value # None /\ self.value[1].tag = "Binary"
            /\ self.value[1].payload.subtype = "Uuid"
         THEN VCall("visit_byte_buf", self.value[1].payload.bytes)
         ELSE VCall("Err", Err("Custom", <<"expected Binary with subtype 4, instead got", self.value>>))
    ELSE VCall("visit_newtype_struct", self)

\* deserialize_newtype_struct checking the variant but not the subtype
Deserializer_deserialize_newtype_struct_anybinary(self, name) ==
    IF name = UUID_NEWTYPE_NAME
    THEN IF self.value # None /\ self.value[1].tag = "Binary"
         THEN Deserializer_deserialize_any(self)
         ELSE VCall("Err", Err("Custom", <<"expected Binary with subtype 4, instead got", self.value>>))
    ELSE VCall("visit_newtype_struct", self)

\* <Deserializer as serde::Deserializer>::deserialize_newtype_struct
Deserializer_deserialize_newtype_struct(self, name) ==
    IF name = UUID_NEWTYPE_NAME
    THEN IF self.value # None /\ self.value[1].tag = "Binary"
            /\ self.value[1].payload.subtype = "Uuid"
         THEN Deserializer_deserialize_any(self)
         ELSE VCall("Err", Err("Custom", <<"expected Binary with subtype 4, instead got", self.value>>))
    ELSE VCall("visit_newtype_struct", self)

VariantDeserializer(val, options) ==
    [kind |-> "VariantDeserializer", val |-> val, options |-> options]

EnumDeserializer(val, deserializer) ==
    [kind |-> "EnumDeserializer", val |-> val, deserializer |-> deserializer]

\* deserialize_enum reporting the first key of a document of several entries
Deserializer_deserialize_enum_firstkey(self) ==
    IF self.value = None THEN VCall("Err", EndOfStream)
    ELSE LET v == self.value[1] IN
      CASE v.tag = "String" ->
              VCall("visit_enum",
                    EnumDeserializer(String(v.payload), VariantDeserializer(None, self.options)))
        [] v.tag = "Document" ->
              LET iter == v.payload IN
              IF iter = <<>>
              THEN VCall("Err", Err("InvalidValue", <<"variant name", "empty document">>))
              ELSE IF Len(iter) >= 2
              THEN VCall("Err", Err("InvalidValue",
                         <<"expected map with a single key, got extra key", iter[1][1]>>))
              ELSE VCall("visit_enum",
                         EnumDeserializer(String(iter[1][1]),
                                          VariantDeserializer(Some(iter[1][2]), self.options)))
        [] OTHER -> VCall("Err", Err("InvalidType", <<"expected an enum", v.tag>>))

\* <Deserializer as serde::Deserializer>::deserialize_enum
Deserializer_deserialize_enum(self) ==
    IF self.value = None THEN VCall("Err", EndOfStream)
    ELSE LET v == self.value[1] IN
      CASE v.tag = "String" ->
              VCall("visit_enum",
                    EnumDeserializer(String(v.payload), VariantDeserializer(None, self.options)))
        [] v.tag = "Document" ->
              LET iter == v.payload IN
              IF iter = <<>>
              THEN VCall("Err", Err("InvalidValue", <<"variant name", "empty document">>))
              ELSE IF Len(iter) >= 2
              THEN VCall("Err", Err("InvalidValue",
                         <<"expected map with a single key, got extra key", iter[2][1]>>))
              ELSE VCall("visit_enum",
                         EnumDeserializer(String(iter[1][1]),
                                          VariantDeserializer(Some(iter[1][2]), self.options)))
        [] OTHER -> VCall("Err", Err("InvalidType", <<"expected an enum", v.tag>>))

----------------------------------------------------------------------------
(* Sub-bridges: the sequence and map cursors *)

\* `self.len -= 1` on a usize; -1 stands for the wrapped value of a release build
\* (a debug build panics)
usize_dec(n) == IF n > 0 THEN n - 1 ELSE -1

\* the one-shot deserializers of Decimal128Access
FieldDeserializer(name) == [kind |-> "FieldDeserializer", field_name |-> name]
Decimal128Deserializer(d) == [kind |-> "Decimal128Deserializer", decimal |-> d]

\* What a cursor method returns: the cursor afterwards, the method's result, and the
\* Deserializer (of src/de/serde.rs) it built for the popped entry, None when it built none.
Step(self, r, d) == [self |-> self, ret |-> r, de |-> d]

RECURSIVE Deserialize(_, _)

\* Result::map(Some)
MapSome(r) == IF r.ok THEN Ok(Some(r.val)) ELSE r

\* next_element_seed counting down before it looks at the iterator
SeqDeserializer_next_element_seed_underflow(self, seed) ==
    IF self.iter = <<>> THEN Step([self EXCEPT !.len = usize_dec(self.len)], Ok(None), None)
    ELSE LET value == Head(self.iter)
             d == new_with_options(value, self.options)
         IN  Step([self EXCEPT !.iter = Tail(self.iter), !.len = usize_dec(self.len)],
                  MapSome(Deserialize(seed, d)),
                  Some(d))

\* <SeqDeserializer as SeqAccess>::next_element_seed
SeqDeserializer_next_element_seed(self, seed) ==
    IF self.iter = <<>> THEN Step(self, Ok(None), None)
    ELSE LET value == Head(self.iter)
             d == new_with_options(value, self.options)
         IN  Step([self EXCEPT !.iter = Tail(self.iter), !.len = usize_dec(self.len)],
                  MapSome(Deserialize(seed, d)),
                  Some(d))

\* <SeqDeserializer as SeqAccess>::size_hint
SeqDeserializer_size_hint(self) == Some(self.len)

\* <MapDeserializer as MapAccess>::next_key_seed
MapDeserializer_next_key_seed(self, seed) ==
    IF self.iter = <<>> THEN Step(self, Ok(None), None)
    ELSE LET key == Head(self.iter)[1]
             value == Head(self.iter)[2]
             d == new_with_options(String(key), self.options)
         IN  Step([self EXCEPT !.iter = Tail(self.iter), !.len = usize_dec(self.len),
                               !.value = Some(value)],
                  MapSome(Deserialize(seed, d)),
                  Some(d))

\* next_value_seed reading the value slot without taking it
MapDeserializer_next_value_seed_peek(self, seed) ==
    IF self.value = None THEN Step(self, EndOfStream, None)
    ELSE LET d == new_with_options(self.value[1], self.options)
         IN  Step(self, Deserialize(seed, d), Some(d))

\* <MapDeserializer as MapAccess>::next_value_seed
MapDeserializer_next_value_seed(self, seed) ==
    IF self.value = None THEN Step(self, EndOfStream, None)
    ELSE LET d == new_with_options(self.value[1], self.options)
         IN  Step([self EXCEPT !.value = None], Deserialize(seed, d), Some(d))

\* <MapDeserializer as MapAccess>::size_hint
MapDeserializer_size_hint(self) == Some(self.len)

\* <Decimal128Access as MapAccess>::next_key_seed
Decimal128Access_next_key_seed(self, seed) ==
    IF self.visited THEN Step(self, Ok(None), None)
    ELSE Step([self EXCEPT !.visited = TRUE],
              MapSome(Deserialize(seed, FieldDeserializer(k_numberDecimalBytes))), None)

\* <Decimal128Access as MapAccess>::next_value_seed
Decimal128Access_next_value_seed(self, seed) ==
    Step(self, Deserialize(seed, Decimal128Deserializer(self.decimal)), None)

\* V: MapAccess, resolved by the cursor's type
next_key_seed(self, seed) ==
    IF self.kind = "MapDeserializer" THEN MapDeserializer_next_key_seed(self, seed)
    ELSE Decimal128Access_next_key_seed(self, seed)

next_value_seed(self, seed) ==
    IF self.kind = "MapDeserializer" THEN MapDeserializer_next_value_seed(self, seed)
    ELSE Decimal128Access_next_value_seed(self, seed)

\* SeqDeserializer::deserialize_any offering every array as a sequence
SeqDeserializer_deserialize_any_seq_only(self) == VCall("visit_seq", self)

\* <SeqDeserializer as serde::Deserializer>::deserialize_any
SeqDeserializer_deserialize_any(self) ==
    IF self.len = 0 THEN VCall("visit_unit", <<>>) ELSE VCall("visit_seq", self)

\* <MapDeserializer as serde::Deserializer>::deserialize_any
MapDeserializer_deserialize_any(self) == VCall("visit_map", self)

\* D: serde::Deserializer, resolved by the deserializer's type: its deserialize_any
\* (every narrower request of these targets is forwarded to it)
deserialize_any(d) ==
    CASE d.kind = "Deserializer" -> Deserializer_deserialize_any(d)
      [] d.kind = "FieldDeserializer" -> VCall("visit_borrowed_str", d.field_name)
      [] d.kind = "Decimal128Deserializer" -> VCall("visit_bytes", d.decimal.bytes)

\* serde::Deserializer::is_human_readable as provided by the trait, for a
\* deserializer that is built without the session's options
provided_is_human_readable(d) == TRUE

\* D: serde::Deserializer, resolved by the deserializer's type: its is_human_readable
is_human_readable_of(d) ==
    IF d.kind = "Deserializer" THEN is_human_readable(d) ELSE provided_is_human_readable(d)

----------------------------------------------------------------------------
(* Text and byte conversions of the decode targets *)

\* the printable ASCII characters, code 32 first (code 96 is written GRAVE)
AsciiChars ==
    <<
      " ", "!", "\"", "#", "$", "%", "&", "'", "(", ")", "*", "+",
      ",", "-", ".", "/", "0", "1", "2", "3", "4", "5", "6", "7",
      "8", "9", ":", ";", "<", "=", ">", "?", "@", "A", "B", "C",
      "D", "E", "F", "G", "H", "I", "J", "K", "L", "M", "N", "O",
      "P", "Q", "R", "S", "T", "U", "V", "W", "X", "Y", "Z", "[",
      "\\", "]", "^", "_", "GRAVE", "a", "b", "c", "d", "e", "f", "g",
      "h", "i", "j", "k", "l", "m", "n", "o", "p", "q", "r", "s",
      "t", "u", "v", "w", "x", "y", "z", "{", "|", "}", "~"
    >>

chr(b) == AsciiChars[b - 31]
ord(c) == (CHOOSE i \in 1..Len(AsciiChars) : AsciiChars[i] = c) + 31

\* String::from_utf8 on bytes that are printable ASCII or not ASCII at all (a byte of
\* 0xF8 and above occurs in no UTF-8 text)
from_utf8(bytes) ==
    IF \E i \in 1..Len(bytes) : bytes[i] >= 248 THEN None
    ELSE Some([i \in 1..Len(bytes) |-> chr(bytes[i])])

\* str::as_bytes
as_bytes(str) == [i \in 1..Len(str) |-> ord(str[i])]

\* the value of a magnitude of at most three digits
SmallValue(mag) ==
    IF Len(mag) = 1 THEN mag[1]
    ELSE IF Len(mag) = 2 THEN mag[1] * 10 + mag[2]
    ELSE mag[1] * 100 + mag[2] * 10 + mag[3]

HexVal(c) ==
    IF \E i \in 1..16 : HexChars[i] = c
    THEN Some((CHOOSE i \in 1..16 : HexChars[i] = c) - 1)
    ELSE IF c \in {"A", "B", "C", "D", "E", "F"} THEN Some(ord(c) - 55)
    ELSE None

\* hex::decode of a one-byte text
hex_decode(str) ==
    IF Len(str) # 2 \/ HexVal(str[1]) = None \/ HexVal(str[2]) = None THEN None
    ELSE Some(HexVal(str[1])[1] * 16 + HexVal(str[2])[1])

B64Val(c) == (CHOOSE i \in 1..64 : B64Chars[i] = c) - 1
IsB64(c) == \E i \in 1..64 : B64Chars[i] = c

\* base64::decode (standard alphabet, padded, canonical trailing bits)
RECURSIVE base64_decode(_)
base64_decode(str) ==
    IF str = <<>> THEN Some(<<>>)
    ELSE IF Len(str) < 4 \/ ~IsB64(str[1]) \/ ~IsB64(str[2]) THEN None
    ELSE LET last == Len(str) = 4
             v1 == B64Val(str[1])
             v2 == B64Val(str[2])
             b1 == v1 * 4 + (v2 \div 16)
         IN  IF str[3] = "="
             THEN IF last /\ str[4] = "=" /\ v2 % 16 = 0 THEN Some(<<b1>>) ELSE None
             ELSE IF ~IsB64(str[3]) THEN None
             ELSE LET v3 == B64Val(str[3])
                      b2 == (v2 % 16) * 16 + (v3 \div 4)
                  IN  IF str[4] = "="
                      THEN IF last /\ v3 % 4 = 0 THEN Some(<<b1, b2>>) ELSE None
                      ELSE IF ~IsB64(str[4]) THEN None
                      ELSE LET b3 == (v3 % 4) * 64 + B64Val(str[4])
                               rest == base64_decode(SubSeq(str, 5, Len(str)))
                           IN  IF rest = None THEN None
                               ELSE Some(<<b1, b2, b3>> \o rest[1])

\* BinarySubtype::from(u8), for the named subtypes
SubtypeFrom(b) ==
    CASE b = 0 -> "Generic"
      [] b = 1 -> "Function"
      [] b = 2 -> "BinaryOld"
      [] b = 3 -> "UuidOld"
      [] b = 4 -> "Uuid"
      [] b = 5 -> "Md5"

\* extjson::models::Binary::parse
Binary_parse(body) ==
    LET bytes == base64_decode(body.base64)
        subtype == hex_decode(body.subType)
    IN  IF bytes = None THEN Err("InvalidValue", <<"base64 encoded bytes", body.base64>>)
        ELSE IF subtype = None
        THEN Err("InvalidValue", <<"hexadecimal number as a string", body.subType>>)
        ELSE Ok(Binary(SubtypeFrom(subtype[1]), bytes[1]))

\* extjson::models::DateTime::parse, canonical body {"$numberLong": millis}
DateTime_parse(body) ==
    LET millis == parse_i64(body.canonical)
    IN  IF millis = None
        THEN Err("InvalidValue", <<"expected 64-bit signed integer as a string", body.canonical>>)
        ELSE Ok(DateTime(millis[1]))

\* Decimal128::deserialize_from_slice
deserialize_from_slice(bytes) ==
    IF Len(bytes) = 16 THEN Ok(Decimal128(bytes))
    ELSE Err("Custom", <<"expected 16 bytes", Len(bytes)>>)

\* Document::insert: the value of an existing key is replaced in place, a new key
\* is appended
Document_insert(doc, k, v) ==
    IF \E i \in 1..Len(doc) : doc[i][1] = k
    THEN [i \in 1..Len(doc) |-> IF doc[i][1] = k THEN <<k, v>> ELSE doc[i]]
    ELSE Append(doc, <<k, v>>)

----------------------------------------------------------------------------
(* Decode targets other than Bson (serde, serde_bytes, extjson::models) *)

InvalidType(exp, c) == Err("InvalidType", <<exp, c.m>>)

\* serde's visitor of String
StringVisitor(c) ==
    CASE c.m = "Err" -> c.arg
      [] c.m \in {"visit_string", "visit_borrowed_str"} -> Ok(c.arg)
      [] c.m \in {"visit_bytes", "visit_byte_buf"} ->
            IF from_utf8(c.arg) = None THEN Err("InvalidValue", <<"a string", c.arg>>)
            ELSE Ok(from_utf8(c.arg)[1])
      [] OTHER -> InvalidType("a string", c)

\* serde's visitor of an unsigned integer type of maximum maxMag
UIntVisitor(c, maxMag) ==
    CASE c.m = "Err" -> c.arg
      [] c.m \in {"visit_u8", "visit_i32", "visit_i64", "visit_u32", "visit_u64"} ->
            IF ~c.arg.neg /\ MagLe(c.arg.mag, maxMag) THEN Ok(c.arg)
            ELSE Err("InvalidValue", <<"an unsigned integer", c.arg>>)
      [] OTHER -> InvalidType("an unsigned integer", c)

\* serde_bytes' visitor of ByteBuf, its visit_seq loop
RECURSIVE ByteBufVisitor_visit_seq(_, _)
ByteBufVisitor_pushed(r, bytes) ==
    IF ~r.ret.ok THEN r.ret
    ELSE IF r.ret.val = None THEN Ok(bytes)
    ELSE ByteBufVisitor_visit_seq(r.self, Append(bytes, SmallValue(r.ret.val[1].mag)))

ByteBufVisitor_visit_seq(cur, bytes) ==
    ByteBufVisitor_pushed(SeqDeserializer_next_element_seed(cur, "u8"), bytes)

\* serde_bytes' visitor of ByteBuf
ByteBufVisitor(c) ==
    CASE c.m = "Err" -> c.arg
      [] c.m \in {"visit_bytes", "visit_byte_buf", "visit_borrowed_bytes"} -> Ok(c.arg)
      [] c.m \in {"visit_string", "visit_borrowed_str"} -> Ok(as_bytes(c.arg))
      [] c.m = "visit_seq" -> ByteBufVisitor_visit_seq(c.arg, <<>>)
      [] OTHER -> InvalidType("byte array", c)

\* serde's visitor of &'de str: only a borrowed string will do
BorrowedStrVisitor(c) ==
    CASE c.m = "Err" -> c.arg
      [] c.m = "visit_borrowed_str" -> Ok(c.arg)
      [] OTHER -> InvalidType("a borrowed string", c)

\* serde's visitor of &'de [u8]
BorrowedBytesVisitor(c) ==
    CASE c.m = "Err" -> c.arg
      [] c.m = "visit_borrowed_bytes" -> Ok(c.arg)
      [] c.m = "visit_borrowed_str" -> Ok(as_bytes(c.arg))
      [] OTHER -> InvalidType("a borrowed byte array", c)

\* serde's visitor of i64
I64Visitor(c) ==
    CASE c.m = "Err" -> c.arg
      [] c.m \in {"visit_i8", "visit_i16", "visit_i32", "visit_i64", "visit_u8", "visit_u16",
                  "visit_u32"} -> Ok(c.arg)
      [] c.m = "visit_u64" ->
            IF MagLe(c.arg.mag, I64_MAX) THEN Ok(c.arg)
            ELSE Err("InvalidValue", <<"i64", c.arg>>)
      [] OTHER -> InvalidType("i64", c)

\* serde's IgnoredAny
IgnoredAny(c) == IF c.m = "Err" THEN c.arg ELSE Ok(<<>>)

IndexOf(fields, k) == CHOOSE i \in 1..Len(fields) : fields[i] = k

\* a derived struct visitor with deny_unknown_fields: its visit_map loop
RECURSIVE StructVisitor_visit_map(_, _, _, _)
StructVisitor_value(vr, i, fields, seeds, got) ==
    IF ~vr.ret.ok THEN vr.ret
    ELSE StructVisitor_visit_map(vr.self, fields, seeds, [got EXCEPT ![i] = Some(vr.ret.val)])

StructVisitor_key(kr, fields, seeds, got) ==
    IF ~kr.ret.ok THEN kr.ret
    ELSE IF kr.ret.val = None
    THEN IF \E i \in 1..Len(fields) : got[i] = None
         THEN Err("Custom", <<"missing field", fields[CHOOSE i \in 1..Len(fields) : got[i] = None]>>)
         ELSE Ok([i \in 1..Len(fields) |-> got[i][1]])
    ELSE IF \A i \in 1..Len(fields) : fields[i] # kr.ret.val[1]
    THEN Err("Custom", <<"unknown field", kr.ret.val[1]>>)
    ELSE IF got[IndexOf(fields, kr.ret.val[1])] # None
    THEN Err("Custom", <<"duplicate field", kr.ret.val[1]>>)
    ELSE StructVisitor_value(
             next_value_seed(kr.self, seeds[IndexOf(fields, kr.ret.val[1])]),
             IndexOf(fields, kr.ret.val[1]), fields, seeds, got)

StructVisitor_visit_map(cur, fields, seeds, got) ==
    StructVisitor_key(next_key_seed(cur, "String"), fields, seeds, got)

\* a derived struct visitor: its visit_seq, the fields in declaration order
RECURSIVE StructVisitor_visit_seq(_, _, _)
StructVisitor_element(r, seeds, got) ==
    IF ~r.ret.ok THEN r.ret
    ELSE IF r.ret.val = None THEN Err("InvalidLength", <<"struct", Len(got)>>)
    ELSE StructVisitor_visit_seq(r.self, seeds, Append(got, r.ret.val[1]))

StructVisitor_visit_seq(cur, seeds, got) ==
    IF Len(got) = Len(seeds) THEN Ok(got)
    ELSE StructVisitor_element(
             SeqDeserializer_next_element_seed(cur, seeds[Len(got) + 1]), seeds, got)

StructVisitor(c, fields, seeds) ==
    CASE c.m = "Err" -> c.arg
      [] c.m = "visit_map" ->
            StructVisitor_visit_map(c.arg, fields, seeds, [i \in 1..Len(fields) |-> None])
      [] c.m = "visit_seq" -> StructVisitor_visit_seq(c.arg, seeds, <<>>)
      [] OTHER -> InvalidType("struct", c)

\* extjson::models::BinaryBody {base64: String, subType: String}
BinaryBody_of(r) == IF r.ok THEN Ok([base64 |-> r.val[1], subType |-> r.val[2]]) ELSE r

BinaryBody(c) == BinaryBody_of(StructVisitor(c, <<k_base64, k_subType>>, <<"String", "String">>))

\* extjson::models::TimestampBody {t: u32, i: u32}
TimestampBody_of(r) == IF r.ok THEN Ok([t |-> r.val[1], i |-> r.val[2]]) ELSE r

TimestampBody(c) == TimestampBody_of(StructVisitor(c, <<k_t, k_i>>, <<"u32", "u32">>))

\* extjson::models::DateTimeBody, an untagged enum: Canonical {"$numberLong": String},
\* else Relaxed(String), a date text of 20 characters or more
DateTimeBody_of(c, canonical, relaxed) ==
    CASE c.m = "Err" -> c.arg
      [] c.m # "Err" /\ canonical.ok -> Ok([canonical |-> canonical.val[1]])
      [] c.m # "Err" /\ ~canonical.ok /\ (relaxed.ok => Len(relaxed.val) < 20) ->
            Err("Custom", <<"data did not match any variant of untagged enum DateTimeBody">>)

DateTimeBody(c) ==
    DateTimeBody_of(c, StructVisitor(c, <<k_numberLong>>, <<"String">>), StringVisitor(c))

----------------------------------------------------------------------------
(* BsonVisitor: the generic decoder into Bson *)

\* an unsigned source narrowed to the smallest signed variant that holds it
convert_unsigned_to_signed_narrowing(value) ==
    IF MagLe(value.mag, I32_MAX) THEN Ok(Int32(value))
    ELSE IF MagLe(value.mag, I64_MAX) THEN Ok(Int64(value))
    ELSE Err("InvalidValue", <<"an integer that fits in i64", value>>)

\* convert_unsigned_to_signed
convert_unsigned_to_signed(value) == Ok(UInt64(value))

\* One pass of a visitor loop: the cursor and the accumulator afterwards, the value
\* returned if the pass returned, the cursor calls made and the Deserializers built.
Iter(cur, a, fin, nk, nv, des) ==
    [cur |-> cur, acc |-> a, fin |-> fin, nk |-> nk, nv |-> nv, des |-> des]

\* BsonVisitor::visit_seq, one pass of its `while let` loop
\* the loop of visit_seq going on past an element that failed
visit_seq_pushed_skip(r, values) ==
    IF ~r.ret.ok THEN Iter(r.self, values, None, 0, 0, r.de)
    ELSE IF r.ret.val = None THEN Iter(r.self, values, Some(Ok(Array(values))), 0, 0, r.de)
    ELSE Iter(r.self, Append(values, r.ret.val[1]), None, 0, 0, r.de)

\* BsonVisitor::visit_seq, one pass of its `while let` loop
visit_seq_pushed(r, values) ==
    IF ~r.ret.ok THEN Iter(r.self, values, Some(r.ret), 0, 0, r.de)
    ELSE IF r.ret.val = None THEN Iter(r.self, values, Some(Ok(Array(values))), 0, 0, r.de)
    ELSE Iter(r.self, Append(values, r.ret.val[1]), None, 0, 0, r.de)

visit_seq_iter(cur, values) ==
    visit_seq_pushed(SeqDeserializer_next_element_seed(cur, "Bson"), values)

RECURSIVE BsonVisitor_visit_seq(_, _)
visit_seq_loop(it) ==
    IF it.fin # None THEN it.fin[1] ELSE BsonVisitor_visit_seq(it.cur, it.acc)

BsonVisitor_visit_seq(cur, values) == visit_seq_loop(visit_seq_iter(cur, values))

\* BsonVisitor::visit_map: the type each reserved-key arm requests of next_value
MarkerSeed(k) ==
    CASE k \in {k_numberInt, k_numberLong, k_numberUInt32, k_numberUInt64, k_numberDouble} ->
            "String"
      [] k = k_binary -> "BinaryBody"
      [] k = k_timestamp -> "TimestampBody"
      [] k = k_date -> "DateTimeBody"
      [] k = k_numberDecimalBytes -> "ByteBuf"

\* string.parse().map_err(|_| invalid_value(Unexpected::Str(&string), &exp)), wrapped
Parsed(n, tag, string, exp) ==
    IF n = None THEN Err("InvalidValue", <<exp, string>>)
    ELSE Ok([tag |-> tag, payload |-> n[1]])

\* a reserved-key arm that parses every integer string at the widest width and
\* $numberDouble as a number only
MarkerValue_widening(k, v) ==
    CASE k = k_numberInt -> Parsed(parse_i64(v), "Int32", v, "32-bit signed integer as a string")
      [] k = k_numberLong -> Parsed(parse_i64(v), "Int64", v, "64-bit signed integer as a string")
      [] k = k_numberUInt32 ->
            Parsed(parse_u64(v), "UInt32", v, "32-bit unsigned integer as a string")
      [] k = k_numberUInt64 ->
            Parsed(parse_u64(v), "UInt64", v, "64-bit unsigned integer as a string")
      [] k = k_numberDouble ->
            Parsed(parse_i64(v), "Int64", v, "64-bit signed integer as a string")
      [] k = k_binary -> Binary_parse(v)
      [] k = k_timestamp -> Ok(Timestamp(v.t, v.i))
      [] k = k_date -> DateTime_parse(v)
      [] k = k_numberDecimalBytes -> deserialize_from_slice(v)

\* a $timestamp arm that fills time from i and increment from t
MarkerValue_swapped(k, v) ==
    IF k = k_timestamp THEN Ok(Timestamp(v.i, v.t)) ELSE MarkerValue_widening(k, v)

\* BsonVisitor::visit_map: what a reserved-key arm returns for the value v it pulled
MarkerValue(k, v) ==
    CASE k = k_numberInt -> Parsed(parse_i32(v), "Int32", v, "32-bit signed integer as a string")
      [] k = k_numberLong -> Parsed(parse_i64(v), "Int64", v, "64-bit signed integer as a string")
      [] k = k_numberUInt32 ->
            Parsed(parse_u32(v), "UInt32", v, "32-bit unsigned integer as a string")
      [] k = k_numberUInt64 ->
            Parsed(parse_u64(v), "UInt64", v, "64-bit unsigned integer as a string")
      [] k = k_numberDouble ->
            IF v = <<"I", "n", "f", "i", "n", "i", "t", "y">> THEN Ok(Double("inf"))
            ELSE IF v = <<"-", "I", "n", "f", "i", "n", "i", "t", "y">> THEN Ok(Double("-inf"))
            ELSE IF v = <<"N", "a", "N">> THEN Ok(Double("nan"))
            ELSE Parsed(parse_i64(v), "Int64", v, "64-bit signed integer as a string")
      [] k = k_binary -> Binary_parse(v)
      [] k = k_timestamp -> Ok(Timestamp(v.t, v.i))
      [] k = k_date -> DateTime_parse(v)
      [] k = k_numberDecimalBytes -> deserialize_from_slice(v)

\* a reserved-key arm without its `return`: the loop goes on to the next key
visit_map_marker_no_return(k, kr, vr, doc) ==
    IF ~vr.ret.ok THEN Iter(vr.self, doc, Some(vr.ret), 1, 1, kr.de \o vr.de)
    ELSE Iter(vr.self, doc, None, 1, 1, kr.de \o vr.de)

\* BsonVisitor::visit_map, a reserved-key arm: the value is pulled and the result returned
visit_map_marker(k, kr, vr, doc) ==
    Iter(vr.self, doc, Some(IF vr.ret.ok THEN MarkerValue(k, vr.ret.val) ELSE vr.ret),
         1, 1, kr.de \o vr.de)

\* BsonVisitor::visit_map, the last arm: the value is pulled as a Bson and inserted
visit_map_entry(k, kr, vr, doc) ==
    IF ~vr.ret.ok THEN Iter(vr.self, doc, Some(vr.ret), 1, 1, kr.de \o vr.de)
    ELSE Iter(vr.self, Document_insert(doc, k, vr.ret.val), None, 1, 1, kr.de \o vr.de)

\* BsonVisitor::visit_map, the `match k.as_str()` on the key pulled
visit_map_match(kr, doc) ==
    IF ~kr.ret.ok THEN Iter(kr.self, doc, Some(kr.ret), 1, 0, kr.de)
    ELSE IF kr.ret.val = None THEN Iter(kr.self, doc, Some(Ok(Document(doc))), 1, 0, kr.de)
    ELSE IF kr.ret.val[1] = k_numberDecimal
    THEN Iter(kr.self, doc,
              Some(Err("Custom", <<"deserializing decimal128 values from strings is not currently supported">>)),
              1, 0, kr.de)
    ELSE IF kr.ret.val[1] \in MarkerKeys
    THEN visit_map_marker(kr.ret.val[1], kr,
                          next_value_seed(kr.self, MarkerSeed(kr.ret.val[1])), doc)
    ELSE visit_map_entry(kr.ret.val[1], kr, next_value_seed(kr.self, "Bson"), doc)

\* BsonVisitor::visit_map, one pass of its `while let` loop
visit_map_iter(cur, doc) == visit_map_match(next_key_seed(cur, "String"), doc)

RECURSIVE BsonVisitor_visit_map(_, _)
visit_map_loop(it) ==
    IF it.fin # None THEN it.fin[1] ELSE BsonVisitor_visit_map(it.cur, it.acc)

BsonVisitor_visit_map(cur, doc) == visit_map_loop(visit_map_iter(cur, doc))

\* <BsonVisitor as Visitor>: the value each visit method returns
BsonVisitor(c) ==
    CASE c.m = "Err" -> c.arg
      [] c.m = "visit_bool" -> Ok(Boolean(c.arg))
      [] c.m \in {"visit_i8", "visit_i16", "visit_i32"} -> Ok(Int32(c.arg))
      [] c.m = "visit_i64" -> Ok(Int64(c.arg))
      [] c.m \in {"visit_u8", "visit_u16", "visit_u32", "visit_u64"} ->
            convert_unsigned_to_signed(c.arg)
      [] c.m = "visit_f64" -> Ok(Double(c.arg))
      [] c.m \in {"visit_string", "visit_borrowed_str"} -> Ok(String(c.arg))
      [] c.m \in {"visit_none", "visit_unit"} -> Ok(Null)
      [] c.m \in {"visit_some", "visit_newtype_struct"} -> Deserialize("Bson", c.arg)
      [] c.m = "visit_seq" -> BsonVisitor_visit_seq(c.arg, <<>>)
      [] c.m = "visit_map" -> BsonVisitor_visit_map(c.arg, <<>>)
      [] c.m \in {"visit_bytes", "visit_byte_buf"} -> Ok(Binary("Generic", c.arg))
      [] OTHER -> InvalidType("a Bson", c)

\* T::deserialize(d) for the target type named by seed
Deserialize(seed, d) ==
    CASE seed = "Bson" -> BsonVisitor(deserialize_any(d))
      [] seed = "String" -> StringVisitor(deserialize_any(d))
      [] seed = "ByteBuf" -> ByteBufVisitor(deserialize_any(d))
      [] seed = "u8" -> UIntVisitor(deserialize_any(d), <<2, 5, 5>>)
      [] seed = "u32" -> UIntVisitor(deserialize_any(d), U32_MAX)
      [] seed = "BinaryBody" -> BinaryBody(deserialize_any(d))
      [] seed = "TimestampBody" -> TimestampBody(deserialize_any(d))
      [] seed = "DateTimeBody" -> DateTimeBody(deserialize_any(d))
      [] seed = "&str" -> BorrowedStrVisitor(deserialize_any(d))
      [] seed = "&[u8]" -> BorrowedBytesVisitor(deserialize_any(d))
      [] seed = "i64" -> I64Visitor(deserialize_any(d))

----------------------------------------------------------------------------
(* The raw view: RawBson and its visitor (src/raw/bson.rs) *)

\* enum RawBson<'a>: the variants of Bson over borrowed data
RawBson(tag, payload) == [tag |-> tag, payload |-> payload, raw |-> TRUE]

\* convert_unsigned_to_signed_raw
convert_unsigned_to_signed_raw(value) == Ok(RawBson("UInt64", value))

\* <RawBsonVisitor as Visitor>: the value each scalar visit method returns
RawBsonVisitor_scalar(c) ==
    CASE c.m = "Err" -> c.arg
      [] c.m = "visit_borrowed_str" -> Ok(RawBson("String", c.arg))
      [] c.m = "visit_borrowed_bytes" ->
            Ok(RawBson("Binary", [subtype |-> "Generic", bytes |-> c.arg]))
      [] c.m \in {"visit_i8", "visit_i16", "visit_i32"} -> Ok(RawBson("Int32", c.arg))
      [] c.m = "visit_i64" -> Ok(RawBson("Int64", c.arg))
      [] c.m \in {"visit_u8", "visit_u16", "visit_u32", "visit_u64"} ->
            convert_unsigned_to_signed_raw(c.arg)
      [] c.m = "visit_bool" -> Ok(RawBson("Boolean", c.arg))
      [] c.m = "visit_f64" -> Ok(RawBson("Double", c.arg))
      [] c.m \in {"visit_none", "visit_unit"} -> Ok(RawBson("Null", <<>>))
      [] OTHER -> InvalidType("a raw BSON reference", c)

\* The raw view's MapAccess over entries <<key, element>>, the key a borrowed string
\* and the element given as the visitor call its deserializer makes.
RawMapAccess(iter) == [kind |-> "RawMapAccess", iter |-> iter, value |-> None]

RECURSIVE RawDeserialize(_, _)

RawMapAccess_next_key_seed(self, seed) ==
    IF self.iter = <<>> THEN Step(self, Ok(None), None)
    ELSE Step([self EXCEPT !.iter = Tail(self.iter), !.value = Some(Head(self.iter)[2])],
              MapSome(RawDeserialize(seed, VCall("visit_borrowed_str", Head(self.iter)[1]))),
              None)

RawMapAccess_next_value_seed(self, seed) ==
    IF self.value = None THEN Step(self, EndOfStream, None)
    ELSE Step([self EXCEPT !.value = None], RawDeserialize(seed, self.value[1]), None)

\* A: MapAccess of RawBsonVisitor::visit_map, resolved by the type of the map
access_next_key_seed(self, seed) ==
    IF self.kind = "RawMapAccess" THEN RawMapAccess_next_key_seed(self, seed)
    ELSE MapDeserializer_next_key_seed(self, seed)

access_next_value_seed(self, seed) ==
    IF self.kind = "RawMapAccess" THEN RawMapAccess_next_value_seed(self, seed)
    ELSE MapDeserializer_next_value_seed(self, seed)

k_bytes == <<"b", "y", "t", "e", "s">>

\* A derived struct visitor of two fields over a map of the raw view: a field given
\* twice or not at all is an error, an unknown field is an error under
\* deny_unknown_fields and skipped otherwise.
RECURSIVE RawStruct_visit_map(_, _, _, _, _)
RawStruct_value(vr, i, fields, seeds, deny, got) ==
    IF ~vr.ret.ok THEN vr.ret
    ELSE RawStruct_visit_map(vr.self, fields, seeds, deny,
                             IF i = 0 THEN got ELSE [got EXCEPT ![i] = Some(vr.ret.val)])

RawStruct_key(kr, fields, seeds, deny, got) ==
    IF ~kr.ret.ok THEN kr.ret
    ELSE IF kr.ret.val = None
    THEN IF got[1] = None THEN Err("Custom", <<"missing field", fields[1]>>)
         ELSE IF got[2] = None THEN Err("Custom", <<"missing field", fields[2]>>)
         ELSE Ok(<<got[1][1], got[2][1]>>)
    ELSE IF kr.ret.val[1] \notin {fields[1], fields[2]}
    THEN IF deny THEN Err("Custom", <<"unknown field", kr.ret.val[1]>>)
         ELSE RawStruct_value(RawMapAccess_next_value_seed(kr.self, "IgnoredAny"), 0,
                              fields, seeds, deny, got)
    ELSE IF got[IF kr.ret.val[1] = fields[1] THEN 1 ELSE 2] # None
    THEN Err("Custom", <<"duplicate field", kr.ret.val[1]>>)
    ELSE RawStruct_value(
             RawMapAccess_next_value_seed(
                 kr.self, seeds[IF kr.ret.val[1] = fields[1] THEN 1 ELSE 2]),
             IF kr.ret.val[1] = fields[1] THEN 1 ELSE 2, fields, seeds, deny, got)

RawStruct_visit_map(cur, fields, seeds, deny, got) ==
    RawStruct_key(RawMapAccess_next_key_seed(cur, "String"), fields, seeds, deny, got)

RawStruct(c, fields, seeds, deny) ==
    CASE c.m = "Err" -> c.arg
      [] c.m = "visit_map" -> RawStruct_visit_map(c.arg, fields, seeds, deny, <<None, None>>)
      [] OTHER -> InvalidType("struct", c)

\* struct BorrowedBinaryBody {bytes: &[u8], subType: u8}
BorrowedBinaryBody_of(r) == IF r.ok THEN Ok([bytes |-> r.val[1], subtype |-> r.val[2]]) ELSE r

BorrowedBinaryBody(c) ==
    BorrowedBinaryBody_of(RawStruct(c, <<k_bytes, k_subType>>, <<"&[u8]", "u8">>, FALSE))

\* T: Deserialize over an element of the raw view, resolved by the type asked for
RawDeserialize(seed, c) ==
    CASE seed = "&str" -> BorrowedStrVisitor(c)
      [] seed = "String" -> StringVisitor(c)
      [] seed = "&[u8]" -> BorrowedBytesVisitor(c)
      [] seed = "ByteBuf" -> ByteBufVisitor(c)
      [] seed = "i64" -> I64Visitor(c)
      [] seed = "u8" -> UIntVisitor(c, <<2, 5, 5>>)
      [] seed = "u32" -> UIntVisitor(c, U32_MAX)
      [] seed = "IgnoredAny" -> IgnoredAny(c)
      [] seed = "BorrowedBinaryBody" -> BorrowedBinaryBody(c)
      [] seed = "TimestampBody" ->
            TimestampBody_of(RawStruct(c, <<k_t, k_i>>, <<"u32", "u32">>, TRUE))

\* the keys under which a field typed as a raw document or a raw array arrives
RAW_DOCUMENT_NEWTYPE ==
    <<"$", "_", "_", "p", "r", "i", "v", "a", "t", "e", "_", "_", "b", "s", "o", "n", "_",
      "R", "a", "w", "D", "o", "c", "u", "m", "e", "n", "t">>
RAW_ARRAY_NEWTYPE ==
    <<"$", "_", "_", "p", "r", "i", "v", "a", "t", "e", "_", "_", "b", "s", "o", "n", "_",
      "R", "a", "w", "A", "r", "r", "a", "y">>

\* RawDocument::new: the four-byte length prefix equals the length of the slice and the
\* last byte is the terminator
RawDocument_new(data) ==
    IF Len(data) < 5 THEN Err("Custom", <<"document too short">>)
    ELSE IF data[1] + 256 * data[2] + 65536 * data[3] # Len(data) \/ data[4] # 0
    THEN Err("Custom", <<"document length incorrect">>)
    ELSE IF data[Len(data)] # 0 THEN Err("Custom", <<"document not null-terminated">>)
    ELSE Ok(data)

\* Result::map over a value pulled from the map: Ok(v) becomes Ok(RawBson(tag, payload))
\* through the conversion named by tag
RawMarkerValue(k, v) ==
    CASE k = k_numberDecimalBytes ->
            IF deserialize_from_slice(v).ok
            THEN Ok(RawBson("Decimal128", deserialize_from_slice(v).val.payload))
            ELSE deserialize_from_slice(v)
      [] k = k_binary ->
            Ok(RawBson("Binary", [subtype |-> SubtypeFrom(SmallValue(v.subtype.mag)),
                                  bytes |-> v.bytes]))
      [] k = k_date -> Ok(RawBson("DateTime", v))
      [] k = k_timestamp -> Ok(RawBson("Timestamp", [time |-> v.t, increment |-> v.i]))
      [] k = RAW_DOCUMENT_NEWTYPE ->
            IF RawDocument_new(v).ok THEN Ok(RawBson("Document", v)) ELSE RawDocument_new(v)
      [] k = RAW_ARRAY_NEWTYPE ->
            IF RawDocument_new(v).ok THEN Ok(RawBson("Array", v)) ELSE RawDocument_new(v)

\* the type each arm of RawBsonVisitor::visit_map asks of map.next_value
RawMarkerSeed(k) ==
    CASE k = k_numberDecimalBytes -> "ByteBuf"
      [] k = k_binary -> "BorrowedBinaryBody"
      [] k = k_date -> "i64"
      [] k = k_timestamp -> "TimestampBody"
      [] k \in {RAW_DOCUMENT_NEWTYPE, RAW_ARRAY_NEWTYPE} -> "&[u8]"

RawVisit(self, r, nk, nv) == [self |-> self, ret |-> r, nk |-> nk, nv |-> nv]

\* RawBsonVisitor::visit_map, an arm of the match: the value is pulled and converted
RawBsonVisitor_visit_map_arm(k, vr) ==
    RawVisit(vr.self, IF vr.ret.ok THEN RawMarkerValue(k, vr.ret.val) ELSE vr.ret, 1, 1)

\* a last arm that takes any other key as the first field of a generic document
RawBsonVisitor_visit_map_match_generic(k, kr) ==
    IF ~kr.ret.ok THEN RawVisit(kr.self, kr.ret, 1, 0)
    ELSE IF kr.ret.val = None
    THEN RawVisit(kr.self, Err("Custom", <<"expected a key when deserializing RawBson">>), 1, 0)
    ELSE IF k \in {k_numberDecimalBytes, k_binary, k_date, k_timestamp, RAW_DOCUMENT_NEWTYPE,
                   RAW_ARRAY_NEWTYPE}
    THEN RawBsonVisitor_visit_map_arm(k, access_next_value_seed(kr.self, RawMarkerSeed(k)))
    ELSE RawVisit(kr.self, Ok(RawBson("Document", <<k>>)), 1, 0)

\* RawBsonVisitor::visit_map after its next_key: no key and an unknown key are errors
RawBsonVisitor_visit_map_match(k, kr) ==
    IF ~kr.ret.ok THEN RawVisit(kr.self, kr.ret, 1, 0)
    ELSE IF kr.ret.val = None
    THEN RawVisit(kr.self, Err("Custom", <<"expected a key when deserializing RawBson">>), 1, 0)
    ELSE IF k \in {k_numberDecimalBytes, k_binary, k_date, k_timestamp, RAW_DOCUMENT_NEWTYPE,
                   RAW_ARRAY_NEWTYPE}
    THEN RawBsonVisitor_visit_map_arm(k, access_next_value_seed(kr.self, RawMarkerSeed(k)))
    ELSE RawVisit(kr.self,
                  Err("Custom", <<"can't deserialize RawBson from map, key=", k>>), 1, 0)

\* the first key of a map, <<>> when there is none
FirstKey(kr) == IF kr.ret.ok /\ kr.ret.val # None THEN kr.ret.val[1] ELSE <<>>

RawBsonVisitor_visit_map_keyed(kr) == RawBsonVisitor_visit_map_match(FirstKey(kr), kr)

\* RawBsonVisitor::visit_map
RawBsonVisitor_visit_map(access) ==
    RawBsonVisitor_visit_map_keyed(access_next_key_seed(access, "&str"))

----------------------------------------------------------------------------
(* The raw view turned into the owned tree *)

\* A raw array holds what its iterator yields, Ok(element) or Err(fault), in buffer
\* order, and a raw document Ok(<<key, element>>) or Err(fault).
RECURSIVE try_from(_)
RECURSIVE try_from_array(_, _)
RECURSIVE Document_try_from(_, _)

\* the loop body with `?` dropped: an element that fails is left out
try_from_pushed_skip(r, rest, items) ==
    IF ~r.ok THEN try_from_array(rest, items) ELSE try_from_array(rest, Append(items, r.val))

\* let bson: Bson = v?.try_into()?; items.push(bson);
try_from_pushed(r, rest, items) ==
    IF ~r.ok THEN r ELSE try_from_array(rest, Append(items, r.val))

\* for v in rawarray { .. }; Bson::Array(items)
try_from_array(iter, items) ==
    IF iter = <<>> THEN Ok(Array(items))
    ELSE IF ~Head(iter).ok THEN Head(iter)
    ELSE try_from_pushed(try_from(Head(iter).val), Tail(iter), items)

Document_try_from_inserted(r, k, rest, doc) ==
    IF ~r.ok THEN r ELSE Document_try_from(rest, Document_insert(doc, k, r.val))

\* TryFrom<&RawDocument> for Document: each entry converted and inserted in buffer order
Document_try_from(iter, doc) ==
    IF iter = <<>> THEN Ok(doc)
    ELSE IF ~Head(iter).ok THEN Head(iter)
    ELSE Document_try_from_inserted(try_from(Head(iter).val[2]), Head(iter).val[1],
                                    Tail(iter), doc)

\* let doc = rawdoc.try_into()?; Bson::Document(doc)
try_from_document(r) == IF r.ok THEN Ok(Document(r.val)) ELSE r

\* <Bson as TryFrom<RawBson>>::try_from
try_from(rawbson) ==
    CASE rawbson.tag = "Document" -> try_from_document(Document_try_from(rawbson.payload, <<>>))
      [] rawbson.tag = "Array" -> try_from_array(rawbson.payload, <<>>)
      [] rawbson.tag = "Binary" ->
            Ok(Binary(rawbson.payload.subtype, rawbson.payload.bytes))
      [] OTHER -> Ok([tag |-> rawbson.tag, payload |-> rawbson.payload])

----------------------------------------------------------------------------
(* Enum access *)

\* Ok((value, self.deserializer))
variant_of(value, self) == IF value.ok THEN Ok(<<value.val, self.deserializer>>) ELSE value

\* Result::map(|_| ())
MapUnit(r) == IF r.ok THEN Ok(<<>>) ELSE r

\* <EnumDeserializer as EnumAccess>::variant_seed
variant_seed(self, seed) ==
    variant_of(Deserialize(seed, new_with_options(self.val, self.deserializer.options)), self)

\* unit_variant accepting no payload but Null
unit_variant_strict(self) ==
    IF self.val = None THEN Ok(<<>>)
    ELSE IF self.val[1].tag = "Null" THEN Ok(<<>>)
    ELSE Err("InvalidType", <<"unit variant", self.val[1].tag>>)

\* <VariantDeserializer as VariantAccess>::unit_variant
unit_variant(self) ==
    IF self.val = None THEN Ok(<<>>)
    ELSE MapUnit(Deserialize("Bson", new_with_options(self.val[1], self.options)))

\* <VariantDeserializer as VariantAccess>::newtype_variant_seed
newtype_variant_seed(self, seed) ==
    IF self.val = None THEN EndOfStream
    ELSE Deserialize(seed, new_with_options(self.val[1], self.options))

\* <VariantDeserializer as VariantAccess>::tuple_variant
tuple_variant(self) ==
    IF self.val = None THEN VCall("Err", EndOfStream)
    ELSE IF self.val[1].tag = "Array"
    THEN SeqDeserializer_deserialize_any(
             SeqDeserializer(self.val[1].payload, Len(self.val[1].payload), self.options))
    ELSE VCall("Err", Err("InvalidType", <<"expected a tuple", self.val[1].tag>>))

\* struct_variant with the mismatch arm of tuple_variant
struct_variant_tuple_arm(self) ==
    IF self.val = None THEN VCall("Err", EndOfStream)
    ELSE IF self.val[1].tag = "Document"
    THEN MapDeserializer_deserialize_any(
             MapDeserializer(self.val[1].payload, None, Len(self.val[1].payload), self.options))
    ELSE VCall("Err", Err("InvalidType", <<"expected a tuple", self.val[1].tag>>))

\* <VariantDeserializer as VariantAccess>::struct_variant
struct_variant(self) ==
    IF self.val = None THEN VCall("Err", EndOfStream)
    ELSE IF self.val[1].tag = "Document"
    THEN MapDeserializer_deserialize_any(
             MapDeserializer(self.val[1].payload, None, Len(self.val[1].payload), self.options))
    ELSE VCall("Err", Err("InvalidType", <<"expected a struct", self.val[1].tag>>))

----------------------------------------------------------------------------
(* The inputs of a decode session *)

MaxEntries == 2
MaxElems == 2

n7 == Num(FALSE, <<7>>)
s42 == <<"4", "2">>
sx == <<"x">>

\* a document whose decode into Bson fails: {"$numberLong": "x"}
BadDoc == Document(<< <<k_numberLong, String(sx)>> >>)

Bytes16 == [i \in 1..16 |-> 48 + (i % 10)]

Scalars ==
    {Double("1.5"), String(s42), Boolean(TRUE), Null, Int32(n7), Int64(Num(TRUE, <<7>>)),
     UInt32(n7), UInt64(n7), Binary("Generic", <<52, 50>>), Binary("Uuid", Bytes16),
     Binary("Md5", <<52>>), DateTime(Num(FALSE, <<4, 2>>)), Timestamp(n7, n7),
     Decimal128(Bytes16)}

ArrayElems == {Int32(n7), String(sx), BadDoc}

EntryKeys == {<<"a">>, <<"b">>, k_numberLong}

EntryValues == {Int32(n7), String(s42), String(sx), Array(<<>>), Array(<<Int32(n7)>>), BadDoc}

SeqsUpTo(S, n) == UNION {[1..k -> S] : k \in 0..n}

Arrays == {Array(v) : v \in SeqsUpTo(ArrayElems, MaxElems)}

Documents ==
    {Document(v) : v \in {e \in SeqsUpTo(EntryKeys \X EntryValues, MaxEntries) :
                             \A i, j \in 1..Len(e) : i # j => e[i][1] # e[j][1]}}

\* a document whose first key is the one reserved key that pulls no value
DecimalStringDoc == Document(<< <<k_numberDecimal, String(s42)>>, <<<<"a">>, BadDoc>> >>)

\* decimal strings about the bounds of i32, u32, i64 and u64, and strings that are no
\* integer: s the string, n the integer it writes, fits the variants that hold n
NumberCases ==
    {[s |-> <<"3">>, n |-> Num(FALSE, <<3>>),
      fits |-> {"Int32", "Int64", "UInt32", "UInt64"}],
     [s |-> <<"-", "1">>, n |-> Num(TRUE, <<1>>),
      fits |-> {"Int32", "Int64"}],
     [s |-> <<"2", "1", "4", "7", "4", "8", "3", "6", "4", "7">>, n |-> Num(FALSE, <<2, 1, 4, 7, 4, 8, 3, 6, 4, 7>>),
      fits |-> {"Int32", "Int64", "UInt32", "UInt64"}],
     [s |-> <<"2", "1", "4", "7", "4", "8", "3", "6", "4", "8">>, n |-> Num(FALSE, <<2, 1, 4, 7, 4, 8, 3, 6, 4, 8>>),
      fits |-> {"Int64", "UInt32", "UInt64"}],
     [s |-> <<"-", "2", "1", "4", "7", "4", "8", "3", "6", "4", "8">>, n |-> Num(TRUE, <<2, 1, 4, 7, 4, 8, 3, 6, 4, 8>>),
      fits |-> {"Int32", "Int64"}],
     [s |-> <<"-", "2", "1", "4", "7", "4", "8", "3", "6", "4", "9">>, n |-> Num(TRUE, <<2, 1, 4, 7, 4, 8, 3, 6, 4, 9>>),
      fits |-> {"Int64"}],
     [s |-> <<"4", "2", "9", "4", "9", "6", "7", "2", "9", "5">>, n |-> Num(FALSE, <<4, 2, 9, 4, 9, 6, 7, 2, 9, 5>>),
      fits |-> {"Int64", "UInt32", "UInt64"}],
     [s |-> <<"4", "2", "9", "4", "9", "6", "7", "2", "9", "6">>, n |-> Num(FALSE, <<4, 2, 9, 4, 9, 6, 7, 2, 9, 6>>),
      fits |-> {"Int64", "UInt64"}],
     [s |-> <<"9", "2", "2", "3", "3", "7", "2", "0", "3", "6", "8", "5", "4", "7", "7", "5", "8", "0", "7">>, n |-> Num(FALSE, <<9, 2, 2, 3, 3, 7, 2, 0, 3, 6, 8, 5, 4, 7, 7, 5, 8, 0, 7>>),
      fits |-> {"Int64", "UInt64"}],
     [s |-> <<"9", "2", "2", "3", "3", "7", "2", "0", "3", "6", "8", "5", "4", "7", "7", "5", "8", "0", "8">>, n |-> Num(FALSE, <<9, 2, 2, 3, 3, 7, 2, 0, 3, 6, 8, 5, 4, 7, 7, 5, 8, 0, 8>>),
      fits |-> {"UInt64"}],
     [s |-> <<"-", "9", "2", "2", "3", "3", "7", "2", "0", "3", "6", "8", "5", "4", "7", "7", "5", "8", "0", "8">>, n |-> Num(TRUE, <<9, 2, 2, 3, 3, 7, 2, 0, 3, 6, 8, 5, 4, 7, 7, 5, 8, 0, 8>>),
      fits |-> {"Int64"}],
     [s |-> <<"-", "9", "2", "2", "3", "3", "7", "2", "0", "3", "6", "8", "5", "4", "7", "7", "5", "8", "0", "9">>, n |-> Num(FALSE, <<0>>),
      fits |-> {}],
     [s |-> <<"1", "8", "4", "4", "6", "7", "4", "4", "0", "7", "3", "7", "0", "9", "5", "5", "1", "6", "1", "5">>, n |-> Num(FALSE, <<1, 8, 4, 4, 6, 7, 4, 4, 0, 7, 3, 7, 0, 9, 5, 5, 1, 6, 1, 5>>),
      fits |-> {"UInt64"}],
     [s |-> <<"1", "8", "4", "4", "6", "7", "4", "4", "0", "7", "3", "7", "0", "9", "5", "5", "1", "6", "1", "6">>, n |-> Num(FALSE, <<0>>),
      fits |-> {}],
     [s |-> <<"+", "7">>, n |-> Num(FALSE, <<7>>),
      fits |-> {"Int32", "Int64", "UInt32", "UInt64"}],
     [s |-> <<"0", "0", "7">>, n |-> Num(FALSE, <<7>>),
      fits |-> {"Int32", "Int64", "UInt32", "UInt64"}],
     [s |-> <<"3", ".", "5">>, n |-> Num(FALSE, <<0>>),
      fits |-> {}],
     [s |-> <<"x">>, n |-> Num(FALSE, <<0>>),
      fits |-> {}],
     [s |-> <<>>, n |-> Num(FALSE, <<0>>),
      fits |-> {}],
     [s |-> <<" ", "3">>, n |-> Num(FALSE, <<0>>),
      fits |-> {}],
     [s |-> <<"1", "e", "3">>, n |-> Num(FALSE, <<0>>),
      fits |-> {}],
     [s |-> <<"-">>, n |-> Num(FALSE, <<0>>),
      fits |-> {}],
     [s |-> <<"I", "n", "f", "i", "n", "i", "t", "y">>, n |-> Num(FALSE, <<0>>),
      fits |-> {}],
     [s |-> <<"-", "I", "n", "f", "i", "n", "i", "t", "y">>, n |-> Num(FALSE, <<0>>),
      fits |-> {}],
     [s |-> <<"N", "a", "N">>, n |-> Num(FALSE, <<0>>),
      fits |-> {}],
     [s |-> <<"i", "n", "f">>, n |-> Num(FALSE, <<0>>),
      fits |-> {}]}

NumberStrings == {c.s : c \in NumberCases}

NumberKeys == {k_numberInt, k_numberLong, k_numberUInt32, k_numberUInt64, k_numberDouble}

\* {"$numberInt": s}, {"$numberLong": s}, {"$numberUInt32": s}, {"$numberUInt64": s} and
\* {"$numberDouble": s}
NumberDocs == {Document(<< <<k, String(str)>> >>) : k \in NumberKeys, str \in NumberStrings}

\* more values with no native visitor method: binaries of 0 to 4 bytes of every
\* non-generic subtype, dates at the bounds of i64, timestamps with unlike fields
FallbackScalars ==
    {Binary("Function", <<>>), Binary("BinaryOld", <<255>>), Binary("UuidOld", <<0, 255>>),
     Binary("Md5", <<1, 2, 3>>), Binary("Uuid", <<1, 2, 3, 250>>),
     DateTime(Num(TRUE, <<1>>)), DateTime(Num(TRUE, I64_MIN_MAG)), DateTime(Num(FALSE, I64_MAX)),
     DateTime(Num(FALSE, <<0>>)), Timestamp(n7, Num(FALSE, <<1>>)),
     Timestamp(Num(FALSE, U32_MAX), Num(FALSE, <<0>>)),
     Decimal128([i \in 1..16 |-> 16 * i - 1])}

\* a second document whose decode fails, with an error of its own: {"$numberInt": "x"}
BadInt == Document(<< <<k_numberInt, String(sx)>> >>)

\* arrays and documents with two elements that fail, at the top and nested
AbortInputs ==
    {Array(<<BadDoc, BadInt>>), Array(<<BadInt, BadDoc>>),
     Array(<<String(sx), BadInt, BadDoc>>),
     Array(<<Array(<<Int32(n7), BadInt>>), BadDoc>>),
     Array(<<Document(<< <<<<"a">>, BadInt>> >>), BadDoc, Int32(n7)>>),
     Document(<< <<<<"a">>, BadDoc>>, <<<<"b">>, BadInt>> >>),
     Document(<< <<<<"a">>, BadInt>>, <<<<"b">>, BadDoc>> >>),
     Document(<< <<<<"a">>, Int32(n7)>>, <<<<"b">>, BadInt>>, <<<<"c">>, BadDoc>> >>),
     Document(<< <<<<"a">>, Array(<<BadInt>>)>>, <<<<"b">>, BadDoc>> >>),
     Document(<< <<<<"a">>, Document(<< <<<<"c">>, Int32(n7)>>, <<<<"d">>, BadInt>> >>)>>,
                 <<<<"b">>, BadDoc>> >>)}

\* values with a visitor method of their own at every position: the bounds of the
\* integer variants, and arrays and documents of such values two levels deep
PlainInputs ==
    {UInt32(Num(FALSE, U32_MAX)), UInt64(Num(FALSE, U64_MAX)), UInt64(Num(FALSE, <<0>>)),
     Int32(Num(TRUE, I32_MIN_MAG)), Int64(Num(FALSE, I64_MAX)), Boolean(FALSE),
     Binary("Generic", <<>>), String(<<>>),
     Array(<<Double("1.5"), Boolean(TRUE), Null>>),
     Array(<<UInt64(n7), Int64(Num(TRUE, <<7>>)), Binary("Generic", <<0, 255>>)>>),
     Array(<<Int32(n7), UInt32(n7)>>),
     Array(<<Array(<<>>), Document(<<>>), Array(<<Document(<< <<<<"a">>, UInt64(n7)>> >>)>>)>>),
     Document(<< <<<<"a">>, UInt32(Num(FALSE, <<0>>))>> >>),
     Document(<< <<<<"b">>, Double("1.5")>>, <<<<"a">>, Null>>, <<<<"c">>, Boolean(TRUE)>> >>),
     Document(<< <<<<"a">>, Array(<<Binary("Generic", <<52>>), Int64(n7)>>)>>,
                 <<<<"b">>, Document(<< <<<<"a">>, UInt64(Num(FALSE, U32_MAX))>> >>)>> >>),
     Document(<< <<<<"a">>, Document(<< <<<<"b">>, Array(<<UInt32(n7)>>)>> >>)>> >>)}

Values ==
    Scalars \cup Arrays \cup Documents \cup {DecimalStringDoc} \cup NumberDocs
    \cup FallbackScalars \cup AbortInputs \cup PlainInputs

Options == {[human_readable |-> h] : h \in {None, Some(TRUE), Some(FALSE)}}

\* the target types an arbitrary visitor asks of a cursor
Seeds == {"Bson", "String"}

NewtypeNames == {UUID_NEWTYPE_NAME, "Wrapper"}

----------------------------------------------------------------------------
(* The decode session *)

Init ==
    /\ input \in Values
    /\ visitor \in {"BsonVisitor", "Any"}
    /\ \E options \in Options : de = new_with_options(input, options)
    /\ pc = "request"
    /\ call = None
    /\ seq = None
    /\ map = None
    /\ variant = None
    /\ acc = <<>>
    /\ op = "none"
    /\ newtype_name = None
    /\ prev = "none"
    /\ ret = None
    /\ nkey = 0
    /\ nval = 0
    /\ yielded = <<>>

\* The bridge has answered a request with c: the visitor method c.m runs.  A cursor or
\* an enum access is kept for the visitor's next calls; a bridge handed back whole
\* (visit_some, visit_newtype_struct) awaits the visitor's next request; any other
\* method, or an error, ends the session.
Enter(c) ==
    /\ call' = Some(c)
    /\ seq' = IF c.m = "visit_seq" THEN Some(c.arg) ELSE seq
    /\ map' = IF c.m = "visit_map" THEN Some(c.arg) ELSE map
    /\ variant' = IF c.m = "visit_enum" /\ visitor = "Any" THEN Some(c.arg) ELSE variant
    /\ pc' = CASE c.m = "visit_seq" -> "seq"
               [] c.m = "visit_map" -> "map"
               [] c.m = "visit_enum" /\ visitor = "Any" -> "enum"
               [] c.m \in {"visit_some", "visit_newtype_struct"} -> "request"
               [] OTHER -> "done"
    /\ ret' = IF visitor = "BsonVisitor" /\ c.m \notin {"visit_seq", "visit_map", "visit_some", "visit_newtype_struct"}
              THEN Some(BsonVisitor(c)) ELSE ret

\* deserializer.deserialize_any(visitor): the stored value is taken
DeserializeAny ==
    /\ pc = "request"
    /\ de' = [de EXCEPT !.value = None]
    /\ Enter(Deserializer_deserialize_any(de))
    /\ op' = "deserialize_any"
    /\ UNCHANGED <<input, visitor, acc, newtype_name, prev, nkey, nval, yielded>>

\* deserializer.deserialize_option(visitor)
DeserializeOption ==
    /\ pc = "request"
    /\ visitor = "Any"
    /\ Enter(Deserializer_deserialize_option(de))
    /\ op' = "deserialize_option"
    /\ UNCHANGED <<input, visitor, de, acc, newtype_name, prev, nkey, nval, yielded>>

\* deserializer.deserialize_newtype_struct(name, visitor)
DeserializeNewtypeStruct ==
    /\ pc = "request"
    /\ visitor = "Any"
    /\ \E n \in NewtypeNames :
          LET c == Deserializer_deserialize_newtype_struct(de, n) IN
          /\ Enter(c)
          /\ de' = IF c.m = "visit_newtype_struct" THEN de ELSE [de EXCEPT !.value = None]
          /\ newtype_name' = Some(n)
    /\ op' = "deserialize_newtype_struct"
    /\ UNCHANGED <<input, visitor, acc, prev, nkey, nval, yielded>>

\* deserializer.deserialize_enum(name, variants, visitor): the stored value is taken
DeserializeEnum ==
    /\ pc = "request"
    /\ visitor = "Any"
    /\ de' = [de EXCEPT !.value = None]
    /\ Enter(Deserializer_deserialize_enum(de))
    /\ op' = "deserialize_enum"
    /\ UNCHANGED <<input, visitor, acc, newtype_name, prev, nkey, nval, yielded>>

\* an arbitrary visitor calls seq.next_element_seed(seed)
NextElementSeed ==
    /\ pc = "seq"
    /\ visitor = "Any"
    /\ \E seed \in Seeds :
          LET r == SeqDeserializer_next_element_seed(seq[1], seed) IN
          /\ seq' = Some(r.self)
          /\ ret' = Some(r.ret)
          /\ yielded' = yielded \o r.de
    /\ op' = "next_element_seed"
    /\ prev' = op
    /\ UNCHANGED <<input, visitor, pc, de, call, newtype_name, map, variant, acc, nkey, nval>>

\* an arbitrary visitor calls map.next_key_seed(seed)
NextKeySeed ==
    /\ pc = "map"
    /\ visitor = "Any"
    /\ \E seed \in Seeds :
          LET r == next_key_seed(map[1], seed) IN
          /\ map' = Some(r.self)
          /\ ret' = Some(r.ret)
          /\ yielded' = yielded \o r.de
    /\ op' = "next_key_seed"
    /\ prev' = op
    /\ UNCHANGED <<input, visitor, pc, de, call, newtype_name, seq, variant, acc, nkey, nval>>

\* an arbitrary visitor calls map.next_value_seed(seed)
NextValueSeed ==
    /\ pc = "map"
    /\ visitor = "Any"
    /\ \E seed \in Seeds :
          LET r == next_value_seed(map[1], seed) IN
          /\ map' = Some(r.self)
          /\ ret' = Some(r.ret)
          /\ yielded' = yielded \o r.de
    /\ op' = "next_value_seed"
    /\ prev' = op
    /\ UNCHANGED <<input, visitor, pc, de, call, newtype_name, seq, variant, acc, nkey, nval>>

\* BsonVisitor::visit_seq runs one pass of its loop
VisitSeq ==
    /\ pc = "seq"
    /\ visitor = "BsonVisitor"
    /\ LET it == visit_seq_iter(seq[1], acc) IN
          /\ seq' = Some(it.cur)
          /\ acc' = it.acc
          /\ yielded' = yielded \o it.des
          /\ ret' = it.fin
          /\ pc' = IF it.fin = None THEN "seq" ELSE "done"
    /\ op' = "next_element_seed"
    /\ prev' = op
    /\ UNCHANGED <<input, visitor, de, call, newtype_name, map, variant, nkey, nval>>

\* BsonVisitor::visit_map runs one pass of its loop
VisitMap ==
    /\ pc = "map"
    /\ visitor = "BsonVisitor"
    /\ LET it == visit_map_iter(map[1], acc) IN
          /\ map' = Some(it.cur)
          /\ acc' = it.acc
          /\ yielded' = yielded \o it.des
          /\ ret' = it.fin
          /\ nkey' = nkey + it.nk
          /\ nval' = nval + it.nv
          /\ op' = IF it.nv = 1 THEN "next_value_seed" ELSE "next_key_seed"
          /\ prev' = IF it.nv = 1 THEN "next_key_seed" ELSE op
          /\ pc' = IF it.fin = None THEN "map" ELSE "done"
    /\ UNCHANGED <<input, visitor, de, call, newtype_name, seq, variant>>

\* the target's visit_enum calls data.variant_seed(seed)
VariantSeed ==
    /\ pc = "enum"
    /\ \E seed \in Seeds :
          LET r == variant_seed(variant[1], seed) IN
          /\ ret' = Some(r)
          /\ variant' = IF r.ok THEN Some(r.val[2]) ELSE None
          /\ pc' = IF r.ok THEN "variant" ELSE "done"
    /\ op' = "variant_seed"
    /\ UNCHANGED <<input, visitor, de, call, newtype_name, seq, map, acc, prev, nkey, nval, yielded>>

\* the target calls variant.unit_variant()
UnitVariant ==
    /\ pc = "variant"
    /\ ret' = Some(unit_variant(variant[1]))
    /\ op' = "unit_variant"
    /\ pc' = "done"
    /\ variant' = None
    /\ UNCHANGED <<input, visitor, de, call, newtype_name, seq, map, acc, prev, nkey, nval, yielded>>

\* the target calls variant.newtype_variant_seed(seed)
NewtypeVariantSeed ==
    /\ pc = "variant"
    /\ \E seed \in Seeds : ret' = Some(newtype_variant_seed(variant[1], seed))
    /\ op' = "newtype_variant_seed"
    /\ pc' = "done"
    /\ variant' = None
    /\ UNCHANGED <<input, visitor, de, call, newtype_name, seq, map, acc, prev, nkey, nval, yielded>>

\* the target calls variant.tuple_variant(len, visitor)
TupleVariant ==
    /\ pc = "variant"
    /\ LET c == tuple_variant(variant[1]) IN
          /\ call' = Some(c)
          /\ seq' = IF c.m = "visit_seq" THEN Some(c.arg) ELSE seq
          /\ pc' = IF c.m = "visit_seq" THEN "seq" ELSE "done"
    /\ op' = "tuple_variant"
    /\ variant' = None
    /\ UNCHANGED <<input, visitor, de, newtype_name, map, acc, prev, ret, nkey, nval, yielded>>

\* the target calls variant.struct_variant(fields, visitor)
StructVariant ==
    /\ pc = "variant"
    /\ LET c == struct_variant(variant[1]) IN
          /\ call' = Some(c)
          /\ map' = IF c.m = "visit_map" THEN Some(c.arg) ELSE map
          /\ pc' = IF c.m = "visit_map" THEN "map" ELSE "done"
    /\ op' = "struct_variant"
    /\ variant' = None
    /\ UNCHANGED <<input, visitor, de, newtype_name, seq, acc, prev, ret, nkey, nval, yielded>>

Next ==
    \/ DeserializeAny
    \/ DeserializeOption
    \/ DeserializeNewtypeStruct
    \/ DeserializeEnum
    \/ NextElementSeed
    \/ NextKeySeed
    \/ NextValueSeed
    \/ VisitSeq
    \/ VisitMap
    \/ VariantSeed
    \/ UnitVariant
    \/ NewtypeVariantSeed
    \/ TupleVariant
    \/ StructVariant

Spec == Init /\ [][Next]_vars

TypeOK ==
    /\ pc \in {"request", "seq", "map", "enum", "variant", "done", "visit_integer", "narrow", "raw_visit_map", "try_from"}
    /\ Len(call) <= 1 /\ Len(seq) <= 1 /\ Len(map) <= 1 /\ Len(variant) <= 1 /\ Len(ret) <= 1

----------------------------------------------------------------------------
(* Single calls: a visitor method or a conversion applied to one argument *)

I8_MAX == <<1, 2, 7>>
I8_MIN_MAG == <<1, 2, 8>>
I16_MAX == <<3, 2, 7, 6, 7>>
I16_MIN_MAG == <<3, 2, 7, 6, 8>>
U8_MAX == <<2, 5, 5>>
U16_MAX == <<6, 5, 5, 3, 5>>

\* the least and greatest value of a signed type, and -1, 0, 7
SignedSamples(minMag, maxMag) ==
    {Num(TRUE, minMag), Num(TRUE, <<1>>), Num(FALSE, <<0>>), n7, Num(FALSE, maxMag)}

\* the greatest value of an unsigned type, the values about the signed bounds it
\* crosses, and 0, 7
UnsignedSamples(maxMag) ==
    {v \in {Num(FALSE, <<0>>), n7, Num(FALSE, I8_MAX), Num(FALSE, I8_MIN_MAG),
            Num(FALSE, I32_MAX), Num(FALSE, I32_MIN_MAG), Num(FALSE, U32_MAX),
            Num(FALSE, I64_MAX), Num(FALSE, I64_MIN_MAG), Num(FALSE, U64_MAX)} :
        MagLe(v.mag, maxMag)}

\* the integer visit methods a serde Deserializer may call, with sample arguments
IntegerCalls ==
    {VCall("visit_i8", n) : n \in SignedSamples(I8_MIN_MAG, I8_MAX)}
    \cup {VCall("visit_i16", n) : n \in SignedSamples(I16_MIN_MAG, I16_MAX)}
    \cup {VCall("visit_i32", n) : n \in SignedSamples(I32_MIN_MAG, I32_MAX)}
    \cup {VCall("visit_i64", n) : n \in SignedSamples(I64_MIN_MAG, I64_MAX)}
    \cup {VCall("visit_u8", n) : n \in UnsignedSamples(U8_MAX)}
    \cup {VCall("visit_u16", n) : n \in UnsignedSamples(U16_MAX)}
    \cup {VCall("visit_u32", n) : n \in UnsignedSamples(U32_MAX)}
    \cup {VCall("visit_u64", n) : n \in UnsignedSamples(U64_MAX)}

\* the variables a single call leaves at their initial values
Idle ==
    /\ seq = None /\ map = None /\ variant = None /\ acc = <<>> /\ prev = "none"
    /\ newtype_name = None /\ nkey = 0 /\ nval = 0 /\ yielded = <<>>

\* the stored values a narrow request is made on: every variant, Binary with the
\* generic and with other subtypes
NarrowValues ==
    Scalars \cup {Array(<<>>), Array(<<Int32(n7), String(sx)>>), Document(<<>>),
                  Document(<< <<<<"a">>, Int32(n7)>> >>)}

\* the visitor calls a raw element's deserializer makes: byte slices (too short for a
\* document, an empty document, 16 bytes), an integer, a string, and the bodies
\* {bytes, subType}, {subType} and {t, i}
RawElements ==
    {VCall("visit_borrowed_bytes", <<1, 2>>), VCall("visit_borrowed_bytes", <<5, 0, 0, 0, 0>>),
     VCall("visit_borrowed_bytes", Bytes16), VCall("visit_i64", Num(TRUE, <<4, 2>>)),
     VCall("visit_borrowed_str", sx),
     VCall("visit_map", RawMapAccess(<< <<k_bytes, VCall("visit_borrowed_bytes", <<1, 2>>)>>,
                                       <<k_subType, VCall("visit_u8", Num(FALSE, <<4>>))>> >>)),
     VCall("visit_map", RawMapAccess(<< <<k_subType, VCall("visit_u8", Num(FALSE, <<0>>))>> >>)),
     VCall("visit_map", RawMapAccess(<< <<k_t, VCall("visit_u32", n7)>>,
                                       <<k_i, VCall("visit_u32", Num(FALSE, <<1>>))>> >>))}

RawKeys ==
    {k_numberDecimalBytes, k_binary, k_date, k_timestamp, RAW_DOCUMENT_NEWTYPE,
     RAW_ARRAY_NEWTYPE, k_numberLong, k_numberInt, k_numberDecimal, <<"a">>}

\* the entries after the first
RawRests ==
    {<<>>, << <<<<"a">>, VCall("visit_i64", n7)>> >>,
     << <<k_date, VCall("visit_borrowed_str", sx)>> >>}

\* the maps handed to RawBsonVisitor::visit_map: maps of the raw view with no entry or
\* with a first entry and a rest, and maps of the owned bridge
RawVisitMaps ==
    {RawMapAccess(<<>>)}
    \cup {RawMapAccess(<< <<k, e>> >> \o rest) : k \in RawKeys, e \in RawElements, rest \in RawRests}

OwnedVisitMaps ==
    {MapDeserializer(d, None, Len(d), DefaultOptions) :
        d \in {<<>>, << <<k_date, Int64(n7)>> >>, << <<<<"a">>, Int32(n7)>> >>}}

\* structural faults of the buffer, told apart by the element they were found at
Fault(i) == Err("Custom", <<"malformed element", i>>)

RawScalars ==
    {RawBson("Int32", n7), RawBson("String", sx),
     RawBson("Binary", [subtype |-> "Md5", bytes |-> <<1, 2>>])}

\* what iterating a nested array or document yields
RawInner == {Ok(RawBson("Int32", n7)), Fault(3)}

\* the elements of the outer array or document: scalars, and arrays and documents
\* that are empty, whole, or broken at their first or second element
RawElems ==
    RawScalars
    \cup {RawBson("Array", v) : v \in SeqsUpTo(RawInner, 2)}
    \cup {RawBson("Document", <<>>),
          RawBson("Document", << Ok(<<<<"a">>, RawBson("String", sx)>>), Fault(4) >>)}

RawArrayItems == {Ok(e) : e \in RawElems} \cup {Fault(1), Fault(2)}

RawDocumentItems ==
    {Ok(<<k, e>>) : k \in {<<"a">>, <<"b">>}, e \in RawElems} \cup {Fault(1), Fault(2)}

\* the raw values converted: scalars, arrays and documents
RawTrees ==
    RawScalars
    \cup {RawBson("Array", v) : v \in SeqsUpTo(RawArrayItems, MaxElems)}
    \cup {RawBson("Document", v) : v \in SeqsUpTo(RawDocumentItems, MaxEntries)}

InitCalls ==
    /\ \/ /\ pc = "try_from"
          /\ input \in RawTrees
          /\ visitor = "none"
          /\ de = None
       \/ /\ pc = "raw_visit_map"
          /\ \/ input \in RawVisitMaps
             \/ input \in OwnedVisitMaps
          /\ visitor = "RawBsonVisitor"
          /\ de = None
       \/ /\ pc = "visit_integer"
          /\ input \in IntegerCalls
          /\ visitor \in {"BsonVisitor", "RawBsonVisitor"}
          /\ de = None
       \/ /\ pc = "narrow"
          /\ input \in NarrowValues
          /\ visitor = "Any"
          /\ \E options \in Options : de = new_with_options(input, options)
    /\ call = None
    /\ ret = None
    /\ op = "none"
    /\ Idle

\* a Deserializer hands an integer to visitor.visit_i8 .. visit_u64
VisitInteger ==
    /\ pc = "visit_integer"
    /\ call' = Some(input)
    /\ ret' = Some(IF visitor = "BsonVisitor" THEN BsonVisitor(input)
                   ELSE RawBsonVisitor_scalar(input))
    /\ op' = input.m
    /\ pc' = "done"
    /\ UNCHANGED <<input, visitor, de, seq, map, variant, acc, newtype_name, prev, nkey, nval,
                   yielded>>

\* deserializer.deserialize_bool(visitor), .deserialize_struct(..), .deserialize_bytes(..):
\* any request other than option, enum and newtype_struct
Narrow ==
    /\ pc = "narrow"
    /\ \E request \in ForwardedRequests \cup {"deserialize_bytes", "deserialize_any"} :
          /\ call' = Some(Deserializer_narrow(request, de))
          /\ op' = request
    /\ de' = [de EXCEPT !.value = None]
    /\ pc' = "done"
    /\ UNCHANGED <<input, visitor, ret, seq, map, variant, acc, newtype_name, prev, nkey, nval,
                   yielded>>

\* a Deserializer hands a map to RawBsonVisitor::visit_map
RawVisitMap ==
    /\ pc = "raw_visit_map"
    /\ call' = Some(VCall("visit_map", input))
    /\ LET r == RawBsonVisitor_visit_map(input) IN
          /\ map' = Some(r.self)
          /\ ret' = Some(r.ret)
          /\ nkey' = r.nk
          /\ nval' = r.nv
    /\ op' = "raw_visit_map"
    /\ pc' = "done"
    /\ UNCHANGED <<input, visitor, de, seq, variant, acc, newtype_name, prev, yielded>>

\* Bson::try_from(rawbson)
TryFrom ==
    /\ pc = "try_from"
    /\ call' = Some(VCall("try_from", input))
    /\ ret' = Some(try_from(input))
    /\ op' = "try_from"
    /\ pc' = "done"
    /\ UNCHANGED <<input, visitor, de, seq, map, variant, acc, newtype_name, prev, nkey, nval,
                   yielded>>

NextCalls ==
    \/ VisitInteger
    \/ TryFrom
    \/ RawVisitMap
    \/ Narrow

Calls == InitCalls /\ [][NextCalls]_vars

----------------------------------------------------------------------------
(* Properties *)

IsErr(r, kind) == ~r.ok /\ r.err = kind

IsUuidBinary(v) == v.tag = "Binary" /\ v.payload.subtype = "Uuid"

\* the last request made of the root bridge
Requested(m) == op = m /\ call # None

\* one call of an arbitrary visitor on a MapDeserializer, out of turn or past the end
MapAccessProtocolStep ==
    (pc = "map" /\ visitor = "Any" /\ map[1].kind = "MapDeserializer") =>
        /\ (op' = "next_value_seed" /\ op # "next_key_seed") => IsErr(ret'[1], "EndOfStream")
        /\ (op' = "next_key_seed" /\ map[1].iter = <<>>) =>
              /\ ret'[1].ok
              /\ ret'[1].val = None
              /\ map'[1].iter = <<>>

\* C1: on a MapDeserializer, next_value requested before any next_key, or again with
\* no next_key in between, returns EndOfStream; next_key requested once every entry
\* has been popped returns Ok(None) and leaves the cursor exhausted, so that every
\* later next_key returns Ok(None) too.
MapAccessProtocol == [][MapAccessProtocolStep]_vars

\* C1 witness: the value of the first key of a two-entry document was requested twice
MapAccessProtocolWitness ==
    /\ pc = "map" /\ visitor = "Any" /\ map[1].kind = "MapDeserializer"
    /\ input.tag = "Document" /\ Len(input.payload) = 2 /\ Len(map[1].iter) = 1
    /\ op = "next_value_seed" /\ prev = "next_value_seed"
    /\ IsErr(ret[1], "EndOfStream")

\* C2: when the first key of the map is not a reserved key, a decode by BsonVisitor that
\* succeeds yields a Document holding every key of the map in iteration order, whatever
\* the later keys are.
FirstKeyDecidesDocument ==
    (/\ visitor = "BsonVisitor" /\ pc = "done" /\ input.tag = "Document"
     /\ input.payload # <<>> /\ input.payload[1][1] \notin MarkerKeys
     /\ ret[1].ok)
    => /\ ret[1].val.tag = "Document"
       /\ Keys(ret[1].val.payload) = Keys(input.payload)

\* C3: when the first key of the map is a reserved key, BsonVisitor::visit_map makes one
\* next_key call and at most one next_value call ($numberDecimal alone pulls no value),
\* leaves every later entry in the cursor, and returns what the first entry alone
\* decodes to: Int64(42) for {"$numberLong": "42", ...}.
MarkerFirstKeyReturnsAtOnce ==
    (/\ visitor = "BsonVisitor" /\ pc = "done" /\ input.tag = "Document"
     /\ input.payload # <<>> /\ input.payload[1][1] \in MarkerKeys)
    => /\ nkey = 1
       /\ nval = (IF input.payload[1][1] = k_numberDecimal THEN 0 ELSE 1)
       /\ map[1].iter = Tail(input.payload)
       /\ ret[1] = BsonVisitor_visit_map(
                       MapDeserializer(<<input.payload[1]>>, None, 1, de.options), <<>>)
       /\ (input.payload[1][1] = k_numberLong /\ input.payload[1][2] = String(s42))
             => (ret[1].ok /\ ret[1].val = Int64(Num(FALSE, <<4, 2>>)))

\* C3 witness: {"$numberLong": "42", "a": {"$numberLong": "x"}} decoded to Int64(42), the
\* undecodable second entry still in the cursor
MarkerFirstKeyReturnsAtOnceWitness ==
    /\ visitor = "BsonVisitor" /\ pc = "done"
    /\ input = Document(<< <<k_numberLong, String(s42)>>, <<<<"a">>, BadDoc>> >>)
    /\ ret[1].ok /\ ret[1].val.tag = "Int64"
    /\ Len(map[1].iter) = 1

\* C4 as claimed: deserialize_newtype_struct with the UUID name on a Binary of subtype
\* Uuid hands the visitor the 16 raw bytes as a byte buffer.
UuidNewtypeHandsRawBytes ==
    (/\ Requested("deserialize_newtype_struct") /\ newtype_name = Some(UUID_NEWTYPE_NAME)
     /\ IsUuidBinary(input))
    => /\ call[1].m = "visit_byte_buf"
       /\ call[1].arg = input.payload.bytes

\* C4 as amended: deserialize_newtype_struct with the UUID name on a Binary of subtype
\* Uuid does not fail; it hands visitor.visit_map a MapDeserializer over the binary's
\* one-key extended-JSON document {"$binary": {base64, subType}}, with the bridge's
\* options and an empty value slot, never a byte buffer.
UuidNewtypeHandsFallbackMap ==
    (/\ Requested("deserialize_newtype_struct") /\ newtype_name = Some(UUID_NEWTYPE_NAME)
     /\ IsUuidBinary(input))
    => /\ call[1].m = "visit_map"
       /\ call[1].arg.kind = "MapDeserializer"
       /\ call[1].arg.iter = into_extended_document(input)
       /\ Keys(call[1].arg.iter) = <<k_binary>>
       /\ call[1].arg.value = None
       /\ call[1].arg.options = de.options

\* C4 witness: the UUID request on a Uuid binary reached visit_map
UuidNewtypeHandsFallbackMapWitness ==
    /\ Requested("deserialize_newtype_struct") /\ newtype_name = Some(UUID_NEWTYPE_NAME)
    /\ IsUuidBinary(input) /\ Len(input.payload.bytes) = 16
    /\ pc = "map" /\ call[1].m = "visit_map"

\* C5: deserialize_newtype_struct with the UUID name returns a custom error, no visitor
\* method invoked, for every stored value that is not a Binary of subtype Uuid; with any
\* other name it hands the unchanged bridge (same value, same options) to
\* visitor.visit_newtype_struct.
UuidNewtypeRejectsOthers ==
    Requested("deserialize_newtype_struct") =>
        /\ (newtype_name = Some(UUID_NEWTYPE_NAME) /\ ~IsUuidBinary(input)) =>
              (call[1].m = "Err" /\ IsErr(call[1].arg, "Custom"))
        /\ newtype_name # Some(UUID_NEWTYPE_NAME) =>
              /\ call[1].m = "visit_newtype_struct"
              /\ call[1].arg = new_with_options(input, de.options)
              /\ de = call[1].arg

\* C5 witness: the UUID request on a Binary of subtype Generic was rejected
UuidNewtypeRejectsOthersWitness ==
    /\ Requested("deserialize_newtype_struct") /\ newtype_name = Some(UUID_NEWTYPE_NAME)
    /\ input.tag = "Binary" /\ input.payload.subtype = "Generic"
    /\ call[1].m = "Err" /\ pc = "done"

\* C6: deserialize_enum on a stored Document reaches visitor.visit_enum exactly when the
\* document has one entry; an empty document is an error, and a document of two or more
\* entries is an error naming the key of the second entry; no visitor method is invoked
\* in either failure.
EnumDocumentSingleEntry ==
    (Requested("deserialize_enum") /\ input.tag = "Document") =>
        /\ call[1].m = "visit_enum" <=> Len(input.payload) = 1
        /\ Len(input.payload) # 1 => (call[1].m = "Err" /\ IsErr(call[1].arg, "InvalidValue"))
        /\ Len(input.payload) = 0 => call[1].arg.exp = <<"variant name", "empty document">>
        /\ Len(input.payload) >= 2 => call[1].arg.exp[2] = input.payload[2][1]
        /\ Len(input.payload) = 1 =>
              /\ call[1].arg.val = String(input.payload[1][1])
              /\ call[1].arg.deserializer.val = Some(input.payload[1][2])

\* C6 witness: a two-entry document was rejected naming its second key
EnumDocumentSingleEntryWitness ==
    /\ Requested("deserialize_enum") /\ input.tag = "Document" /\ Len(input.payload) = 2
    /\ call[1].m = "Err" /\ call[1].arg.exp[2] = input.payload[2][1]
    /\ input.payload[2][1] # input.payload[1][1]

\* C7: for a single-entry document {variant: payload}, tuple_variant reaches the visitor
\* only when payload is an Array and otherwise returns InvalidType "expected a tuple";
\* struct_variant reaches the visitor only when payload is a Document and otherwise
\* returns InvalidType "expected a struct"; deserialize_enum on a stored value that is
\* neither String nor Document returns InvalidType.
VariantPayloadShape ==
    /\ (op = "tuple_variant" /\ input.tag = "Document") =>
          IF input.payload[1][2].tag = "Array"
          THEN call[1].m \in {"visit_seq", "visit_unit"}
          ELSE /\ call[1].m = "Err" /\ IsErr(call[1].arg, "InvalidType")
               /\ call[1].arg.exp = <<"expected a tuple", input.payload[1][2].tag>>
    /\ (op = "struct_variant" /\ input.tag = "Document") =>
          IF input.payload[1][2].tag = "Document"
          THEN call[1].m = "visit_map"
          ELSE /\ call[1].m = "Err" /\ IsErr(call[1].arg, "InvalidType")
               /\ call[1].arg.exp = <<"expected a struct", input.payload[1][2].tag>>
    /\ (Requested("deserialize_enum") /\ input.tag \notin {"String", "Document"}) =>
          /\ call[1].m = "Err" /\ IsErr(call[1].arg, "InvalidType")
          /\ call[1].arg.exp = <<"expected an enum", input.tag>>

\* C7 witness: struct_variant was refused an Array payload
VariantPayloadShapeWitness ==
    /\ op = "struct_variant" /\ input.tag = "Document"
    /\ input.payload[1][2].tag = "Array"
    /\ call[1].m = "Err" /\ pc = "done"

\* C8: deserialize_option calls visit_none exactly when the stored value is Null; for any
\* other stored value it calls visit_some with the bridge itself, its value still stored
\* and its options unchanged.
OptionNoneIffNull ==
    Requested("deserialize_option") =>
        /\ call[1].m = "visit_none" <=> input.tag = "Null"
        /\ input.tag # "Null" =>
              /\ call[1].m = "visit_some"
              /\ call[1].arg = new_with_options(input, de.options)
              /\ de = call[1].arg

\* C8 witness: a stored Document was handed on by visit_some, unconsumed
OptionNoneIffNullWitness ==
    /\ Requested("deserialize_option") /\ input.tag = "Document" /\ input.payload # <<>>
    /\ call[1].m = "visit_some" /\ call[1].arg.value = Some(input) /\ pc = "request"

\* the array a SeqDeserializer of the session was built over
SeqOrigin == IF input.tag = "Array" THEN input.payload ELSE input.payload[1][2].payload

\* the cursor, its count and the Deserializers it has built, against the array
SeqCursorState ==
    seq # None =>
        LET popped == Len(SeqOrigin) - Len(seq[1].iter) IN
        /\ SeqDeserializer_size_hint(seq[1]) = Some(Len(seq[1].iter))
        /\ seq[1].len >= 0
        /\ popped >= 0
        /\ seq[1].iter = SubSeq(SeqOrigin, popped + 1, Len(SeqOrigin))
        /\ yielded = [i \in 1..popped |-> new_with_options(SeqOrigin[i], seq[1].options)]

\* one call of an arbitrary visitor on an exhausted SeqDeserializer
SeqCursorExhaustedStep ==
    (pc = "seq" /\ visitor = "Any" /\ seq[1].iter = <<>>) =>
        /\ ret'[1].ok
        /\ ret'[1].val = None
        /\ seq'[1].len = 0
        /\ seq'[1].iter = <<>>

\* C9: at every point of a SeqDeserializer's life size_hint is the number of elements not
\* yet popped and never negative; the elements popped so far are the leading elements of
\* the array, in order, each once, each in a Deserializer of its own with the cursor's
\* options, also when their decode failed; once all are popped a further
\* next_element_seed returns Ok(None) and leaves the count at 0.
SeqCursorRemainingCount == []SeqCursorState /\ [][SeqCursorExhaustedStep]_vars

\* C9 witness: both elements of a two-element array popped, the second decode having
\* failed, and a further call answered Ok(None)
SeqCursorRemainingCountWitness ==
    /\ pc = "seq" /\ visitor = "Any" /\ Len(SeqOrigin) = 2
    /\ SeqOrigin[2] = BadDoc
    /\ seq[1].iter = <<>> /\ seq[1].len = 0 /\ Len(yielded) = 2
    /\ op = "next_element_seed" /\ ret[1].ok /\ ret[1].val = None

\* C10: every MapDeserializer the bridge hands out has len equal to the number of
\* entries left in its iterator, from construction on.
MapLenIsEntriesLeft ==
    (map # None /\ map[1].kind = "MapDeserializer") =>
        /\ MapDeserializer_size_hint(map[1]) = Some(Len(map[1].iter))
        /\ (map[1].iter = <<>> <=> map[1].len = 0)

\* C11 as claimed: a SeqDeserializer driven generically is offered to the visitor as a
\* sequence whatever its length, so that a target implementing only visit_seq is still
\* handed the (empty) sequence of an empty array.
TupleVariantOffersSequence ==
    (op = "tuple_variant" /\ input.tag = "Document" /\ input.payload[1][2].tag = "Array")
    => call[1].m = "visit_seq"

\* C11 as amended: a SeqDeserializer driven generically over an empty array calls
\* visitor.visit_unit and nothing else, so that only a target accepting unit is served
\* and no empty sequence is offered; over a non-empty array it calls visitor.visit_seq
\* with the cursor over all the elements, and never visit_unit.
EmptyArrayOfferedAsUnitOnly ==
    (op = "tuple_variant" /\ input.tag = "Document" /\ input.payload[1][2].tag = "Array")
    => IF input.payload[1][2].payload = <<>>
       THEN call[1].m = "visit_unit" /\ pc = "done" /\ seq = None
       ELSE /\ call[1].m = "visit_seq"
            /\ call[1].arg.kind = "SeqDeserializer"
            /\ call[1].arg.iter = input.payload[1][2].payload
            /\ call[1].arg.len = Len(input.payload[1][2].payload)

\* C11 witness: tuple_variant on {"a": []} ended in visit_unit, no cursor handed out
EmptyArrayOfferedAsUnitOnlyWitness ==
    /\ op = "tuple_variant" /\ input.tag = "Document"
    /\ input.payload[1][2] = Array(<<>>)
    /\ call[1].m = "visit_unit" /\ seq = None /\ pc = "done"

\* the variant and payload the integer policy gives a source of the given type
IntegerPolicy(c) ==
    CASE c.m \in {"visit_i8", "visit_i16", "visit_i32"} -> <<"Int32", c.arg>>
      [] c.m = "visit_i64" -> <<"Int64", c.arg>>
      [] c.m \in {"visit_u8", "visit_u16", "visit_u32", "visit_u64"} -> <<"UInt64", c.arg>>

\* C12: BsonVisitor and RawBsonVisitor turn every unsigned 8/16/32/64-bit source into
\* UInt64 of the same magnitude, every signed 8/16/32-bit source into Int32 of the same
\* value and every signed 64-bit source into Int64, and return no error for an integer.
SameIntegerPolicy ==
    (op \in {"visit_i8", "visit_i16", "visit_i32", "visit_i64",
             "visit_u8", "visit_u16", "visit_u32", "visit_u64"} /\ pc = "done")
    => /\ ret[1].ok
       /\ <<ret[1].val.tag, ret[1].val.payload>> = IntegerPolicy(call[1])
       /\ ("raw" \in DOMAIN ret[1].val) <=> (visitor = "RawBsonVisitor")

\* C12 witness: BsonVisitor was handed 4294967295 as a u32 and returned UInt64
SameIntegerPolicyWitness ==
    /\ pc = "done" /\ visitor = "BsonVisitor" /\ op = "visit_u32"
    /\ call[1].arg = Num(FALSE, U32_MAX)
    /\ ret[1].ok /\ ret[1].val.tag = "UInt64"

\* v is the one-entry document {k: s} with k one of keys and s a sample string
IsNumberDoc(v, keys) ==
    /\ v.tag = "Document" /\ Len(v.payload) = 1 /\ v.payload[1][1] \in keys
    /\ v.payload[1][2].tag = "String" /\ v.payload[1][2].payload \in NumberStrings

NumberCase(str) == CHOOSE c \in NumberCases : c.s = str

NumberKeyTag(k) ==
    CASE k = k_numberInt -> "Int32"
      [] k = k_numberLong -> "Int64"
      [] k = k_numberUInt32 -> "UInt32"
      [] k = k_numberUInt64 -> "UInt64"

\* r is the variant tag over the integer c.n when tag holds it, and otherwise the
\* invalid-value error citing the string
ParsedAs(r, tag, c) ==
    IF tag \in c.fits
    THEN r.ok /\ r.val.tag = tag /\ r.val.payload = c.n
    ELSE IsErr(r, "InvalidValue") /\ r.exp[2] = c.s

\* C13: BsonVisitor::visit_map on a first key "$numberDouble" with string s returns
\* Double(+inf), Double(-inf), Double(NaN) for "Infinity", "-Infinity", "NaN"; parses
\* every other s as a 64-bit signed integer and returns Int64(n), so "3" gives Int64(3);
\* and returns the invalid-value error when s is no valid i64, as "3.5".
NumberDoubleParsesAsInt64 ==
    (/\ visitor = "BsonVisitor" /\ pc = "done" /\ call[1].m = "visit_map"
     /\ IsNumberDoc(input, {k_numberDouble}))
    => LET str == input.payload[1][2].payload IN
       CASE str = <<"I", "n", "f", "i", "n", "i", "t", "y">> -> ret[1] = Ok(Double("inf"))
         [] str = <<"-", "I", "n", "f", "i", "n", "i", "t", "y">> -> ret[1] = Ok(Double("-inf"))
         [] str = <<"N", "a", "N">> -> ret[1] = Ok(Double("nan"))
         [] OTHER -> ParsedAs(ret[1], "Int64", NumberCase(str))

\* C13 witness: {"$numberDouble": "3"} decoded to Int64(3)
NumberDoubleParsesAsInt64Witness ==
    /\ visitor = "BsonVisitor" /\ pc = "done" /\ call[1].m = "visit_map"
    /\ input = Document(<< <<k_numberDouble, String(<<"3">>)>> >>)
    /\ ret[1].ok /\ ret[1].val = Int64(Num(FALSE, <<3>>))

\* C14: on a first key "$numberInt", "$numberLong", "$numberUInt32" or "$numberUInt64"
\* the string is parsed to exactly Int32, Int64, UInt32 or UInt64; a string that is no
\* number or is outside that type's range ("2147483648" for $numberInt, "-1" for
\* $numberUInt32) gives the invalid-value error, never a wrapped, truncated or widened
\* value.
NumberMarkersParseExactly ==
    (/\ visitor = "BsonVisitor" /\ pc = "done" /\ call[1].m = "visit_map"
     /\ IsNumberDoc(input, NumberKeys \ {k_numberDouble}))
    => ParsedAs(ret[1], NumberKeyTag(input.payload[1][1]),
                NumberCase(input.payload[1][2].payload))

\* C14 witness: {"$numberInt": "2147483648"} was refused with the invalid-value error
NumberMarkersParseExactlyWitness ==
    /\ visitor = "BsonVisitor" /\ pc = "done" /\ call[1].m = "visit_map"
    /\ input = Document(<< <<k_numberInt, String(<<"2", "1", "4", "7", "4", "8", "3", "6", "4", "8">>)>> >>)
    /\ IsErr(ret[1], "InvalidValue")

\* the visitor method of each stored variant
VariantMethod(v) ==
    CASE v.tag = "Double" -> "visit_f64"
      [] v.tag = "String" -> "visit_string"
      [] v.tag = "Array" -> "visit_seq"
      [] v.tag = "Document" -> "visit_map"
      [] v.tag = "Boolean" -> "visit_bool"
      [] v.tag = "Null" -> "visit_unit"
      [] v.tag = "Int32" -> "visit_i32"
      [] v.tag = "Int64" -> "visit_i64"
      [] v.tag = "UInt32" -> "visit_u32"
      [] v.tag = "UInt64" -> "visit_u64"
      [] v.tag = "Binary" /\ v.payload.subtype = "Generic" -> "visit_byte_buf"
      [] OTHER -> "visit_map"

IsFallbackScalar(v) ==
    \/ v.tag \in {"Timestamp", "DateTime", "Decimal128"}
    \/ v.tag = "Binary" /\ v.payload.subtype # "Generic"

\* C16: a non-generic Binary, a Timestamp, a DateTime or a Decimal128 handed to
\* BsonVisitor::visit_map as its one-key fallback map decodes to an equal value: same
\* variant, same payload, same binary subtype.
FallbackRoundTrip ==
    (/\ visitor = "BsonVisitor" /\ pc = "done" /\ call[1].m = "visit_map"
     /\ IsFallbackScalar(input))
    => ret[1].ok /\ ret[1].val = input

\* C16 witness: Timestamp {time: 7, increment: 1} came back through {"$timestamp": {t, i}}
FallbackRoundTripWitness ==
    /\ visitor = "BsonVisitor" /\ pc = "done" /\ call[1].m = "visit_map"
    /\ input = Timestamp(n7, Num(FALSE, <<1>>))
    /\ ret[1].ok /\ ret[1].val.payload.increment = Num(FALSE, <<1>>)

RawMarkerKeys ==
    {k_numberDecimalBytes, k_binary, k_date, k_timestamp, RAW_DOCUMENT_NEWTYPE,
     RAW_ARRAY_NEWTYPE}

\* the variant each accepted first key gives
RawMarkerTag(k) ==
    CASE k = k_numberDecimalBytes -> "Decimal128"
      [] k = k_binary -> "Binary"
      [] k = k_date -> "DateTime"
      [] k = k_timestamp -> "Timestamp"
      [] k = RAW_DOCUMENT_NEWTYPE -> "Document"
      [] k = RAW_ARRAY_NEWTYPE -> "Array"

\* C17: RawBsonVisitor::visit_map asks for one key and at most one value and leaves the
\* later entries alone.  It returns a value only when the first key is
\* $numberDecimalBytes, $binary, $date, $timestamp or one of the two raw-document and
\* raw-array markers, and then the variant of that key, never a generic document; any
\* other first key ($numberLong, an ordinary name) and a map with no entry are errors.
RawVisitMapFirstKeyOnly ==
    (op = "raw_visit_map" /\ pc = "done")
    => /\ nkey = 1 /\ nval <= 1
       /\ map[1].iter = (IF input.iter = <<>> THEN <<>> ELSE Tail(input.iter))
       /\ input.iter = <<>> => IsErr(ret[1], "Custom")
       /\ (input.iter # <<>> /\ input.iter[1][1] \notin RawMarkerKeys)
             => ~ret[1].ok /\ nval = 0
       /\ ret[1].ok
             => /\ input.iter # <<>> /\ input.iter[1][1] \in RawMarkerKeys
                /\ ret[1].val.tag = RawMarkerTag(input.iter[1][1])
                /\ nval = 1

\* C17 witness: {"$numberLong": .., "a": 7} was refused after one key, no value pulled
RawVisitMapFirstKeyOnlyWitness ==
    /\ op = "raw_visit_map" /\ pc = "done" /\ input.kind = "RawMapAccess"
    /\ Len(input.iter) = 2 /\ input.iter[1][1] = k_numberLong
    /\ IsErr(ret[1], "Custom") /\ nkey = 1 /\ nval = 0 /\ Len(map[1].iter) = 1

\* the faults of a raw value in buffer order, those of nested arrays and documents
\* in their place
RECURSIVE Faults(_)
RECURSIVE FaultsOf(_, _)
FaultsOf(iter, isDoc) ==
    IF iter = <<>> THEN <<>>
    ELSE (IF ~Head(iter).ok THEN <<Head(iter)>>
          ELSE Faults(IF isDoc THEN Head(iter).val[2] ELSE Head(iter).val))
         \o FaultsOf(Tail(iter), isDoc)

Faults(rawbson) ==
    IF rawbson.tag \in {"Array", "Document"}
    THEN FaultsOf(rawbson.payload, rawbson.tag = "Document")
    ELSE <<>>

\* b is the owned value of a raw value without faults: the same variant, the elements
\* of an array one for one in order, the keys of a document, the subtype and bytes of
\* a Binary, the payload of any other scalar
RECURSIVE SameValue(_, _)
SameValue(rawbson, b) ==
    /\ b.tag = rawbson.tag
    /\ "raw" \notin DOMAIN b
    /\ CASE rawbson.tag = "Array" ->
               /\ Len(b.payload) = Len(rawbson.payload)
               /\ \A i \in 1..Len(b.payload) : SameValue(rawbson.payload[i].val, b.payload[i])
         [] rawbson.tag = "Document" ->
               /\ \A i \in 1..Len(rawbson.payload) :
                     \E j \in 1..Len(b.payload) : b.payload[j][1] = rawbson.payload[i].val[1]
               /\ \A j \in 1..Len(b.payload) :
                     \E i \in 1..Len(rawbson.payload) :
                        /\ b.payload[j][1] = rawbson.payload[i].val[1]
                        /\ SameValue(rawbson.payload[i].val[2], b.payload[j][2])
         [] rawbson.tag = "Binary" ->
               /\ b.payload.subtype = rawbson.payload.subtype
               /\ b.payload.bytes = rawbson.payload.bytes
         [] OTHER -> b.payload = rawbson.payload

\* C18: Bson::try_from(RawBson) converts the elements of a raw array or document in
\* buffer order and returns the error of the first element whose parse or nested
\* conversion fails, with no Bson value; when none fails the result has the variant
\* of the input, an array its elements one for one in order, and a Binary its subtype
\* and the same bytes.
TryFromAllOrNothing ==
    (op = "try_from" /\ pc = "done")
    => IF Faults(input) # <<>>
       THEN ~ret[1].ok /\ ret[1] = Faults(input)[1]
       ELSE ret[1].ok /\ SameValue(input, ret[1].val)

\* C18 witness: an array whose second element is an array broken at its own second
\* element, with a fault behind it, gave the inner fault
TryFromAllOrNothingWitness ==
    /\ op = "try_from" /\ pc = "done"
    /\ input = RawBson("Array", << Ok(RawBson("Int32", n7)),
                                   Ok(RawBson("Array", << Ok(RawBson("Int32", n7)), Fault(3) >>)) >>)
    /\ ret[1] = Fault(3)

\* what the element v decodes to on its own
ElementResult(v, options) == Deserialize("Bson", new_with_options(v, options))

\* the elements of an array, the values of a document
ElementsOf(v) ==
    IF v.tag = "Array" THEN v.payload ELSE [i \in 1..Len(v.payload) |-> v.payload[i][2]]

SomeElementFails(elems, options) ==
    \E i \in 1..Len(elems) : ~ElementResult(elems[i], options).ok

FirstFailing(elems, options) ==
    CHOOSE i \in 1..Len(elems) :
        /\ ~ElementResult(elems[i], options).ok
        /\ \A j \in 1..(i - 1) : ElementResult(elems[j], options).ok

\* the decode ended with the error of element i, the entries after i still in the
\* cursor
AbortedAt(i, v, r, cur, options) ==
    /\ ~r.ok
    /\ r = ElementResult(ElementsOf(v)[i], options)
    /\ cur.iter = SubSeq(v.payload, i + 1, Len(v.payload))

\* C19: when the decode of an element of an Array, or of a value of a Document, into
\* Bson fails, BsonVisitor::visit_seq / visit_map returns the error of the first
\* element that fails, pulls no later element from the cursor, and returns no partial
\* Array or Document.
FirstErrorAborts ==
    /\ (/\ visitor = "BsonVisitor" /\ pc = "done" /\ input.tag = "Array"
        /\ call[1].m = "visit_seq" /\ SomeElementFails(input.payload, de.options))
       => AbortedAt(FirstFailing(input.payload, de.options), input, ret[1], seq[1], de.options)
    /\ (/\ visitor = "BsonVisitor" /\ pc = "done" /\ input.tag = "Document"
        /\ call[1].m = "visit_map"
        /\ \A i \in 1..Len(input.payload) : input.payload[i][1] \notin MarkerKeys
        /\ SomeElementFails(ElementsOf(input), de.options))
       => /\ AbortedAt(FirstFailing(ElementsOf(input), de.options), input, ret[1], map[1],
                       de.options)
          /\ map[1].value = None

\* C19 witness: [[7, {"$numberInt": "x"}], {"$numberLong": "x"}] ended with the error of
\* the nested {"$numberInt": "x"}, the second element still in the cursor
FirstErrorAbortsWitness ==
    /\ visitor = "BsonVisitor" /\ pc = "done"
    /\ input = Array(<<Array(<<Int32(n7), BadInt>>), BadDoc>>)
    /\ IsErr(ret[1], "InvalidValue")
    /\ ret[1].exp[1] = "32-bit signed integer as a string"
    /\ seq[1].iter = <<BadDoc>>

\* what the session was configured to report: false only when human_readable was set
\* to false
SessionFlag == de.options # [human_readable |-> Some(FALSE)]

\* The root reports the configured flag, and so does every Deserializer built from the
\* options the session carries: those the cursors built for elements, keys and values,
\* the one variant_seed builds for the variant name, the one built for a variant's
\* payload, the root handed on by visit_some and visit_newtype_struct, and the maps
\* and sequences handed to the visitor.
BridgesInheritOptions ==
    /\ is_human_readable(de) = SessionFlag
    /\ \A i \in 1..Len(yielded) : is_human_readable_of(yielded[i]) = SessionFlag
    /\ pc = "enum"
          => is_human_readable_of(
                 new_with_options(variant[1].val, variant[1].deserializer.options)) = SessionFlag
    /\ (pc = "variant" /\ variant[1].val # None)
          => is_human_readable_of(
                 new_with_options(variant[1].val[1], variant[1].options)) = SessionFlag
    /\ (call # None /\ call[1].m \in {"visit_some", "visit_newtype_struct"})
          => is_human_readable_of(call[1].arg) = SessionFlag
    /\ seq # None => seq[1].options = de.options
    /\ (map # None /\ map[1].kind = "MapDeserializer") => map[1].options = de.options

\* the deserializers Decimal128Access hands its key and its value to report the
\* configured flag
Decimal128BridgesInherit ==
    (map # None /\ map[1].kind = "Decimal128Access")
    => /\ is_human_readable_of(FieldDeserializer(k_numberDecimalBytes)) = SessionFlag
       /\ is_human_readable_of(Decimal128Deserializer(map[1].decimal)) = SessionFlag

\* C20: is_human_readable() of the root is true with default options or with
\* human_readable = None and the configured boolean otherwise, and every sub-bridge
\* the session creates (array element, map key, map value, variant name, variant
\* payload, the fallback map of a value with no native visitor method) reports the
\* same as the root.
HumanReadableInherited == BridgesInheritOptions /\ Decimal128BridgesInherit

\* every position of v holds a Double, String, Boolean, Null, Int32, Int64, UInt32,
\* UInt64 or generic Binary, or an array or a document without reserved keys of such
RECURSIVE IsPlain(_)
IsPlain(v) ==
    CASE v.tag \in {"Double", "String", "Boolean", "Null", "Int32", "Int64", "UInt32", "UInt64"}
            -> TRUE
      [] v.tag = "Binary" -> v.payload.subtype = "Generic"
      [] v.tag = "Array" -> \A i \in 1..Len(v.payload) : IsPlain(v.payload[i])
      [] v.tag = "Document" ->
            \A i \in 1..Len(v.payload) :
                v.payload[i][1] \notin MarkerKeys /\ IsPlain(v.payload[i][2])
      [] OTHER -> FALSE

RECURSIVE HasUInt32(_)
HasUInt32(v) ==
    CASE v.tag = "UInt32" -> TRUE
      [] v.tag = "Array" -> \E i \in 1..Len(v.payload) : HasUInt32(v.payload[i])
      [] v.tag = "Document" -> \E i \in 1..Len(v.payload) : HasUInt32(v.payload[i][2])
      [] OTHER -> FALSE

\* v with UInt64(n) in the place of every UInt32(n)
RECURSIVE Widened(_)
Widened(v) ==
    CASE v.tag = "UInt32" -> [tag |-> "UInt64", payload |-> v.payload]
      [] v.tag = "Array" -> [tag |-> "Array", payload |-> [i \in 1..Len(v.payload) |-> Widened(v.payload[i])]]
      [] v.tag = "Document" ->
            [tag |-> "Document",
             payload |-> [i \in 1..Len(v.payload) |-> <<v.payload[i][1], Widened(v.payload[i][2])>>]]
      [] OTHER -> v

\* the decode of the root value by BsonVisitor has returned
DecodedByBsonVisitor ==
    visitor = "BsonVisitor" /\ pc = "done" /\ ret # None /\ newtype_name = None

\* C21 as claimed: for every value v built from Double, String, Boolean, Null, Int32,
\* Int64, UInt32, UInt64, generic Binary, and arrays or documents without reserved keys
\* of these, the decode of Deserializer::new(v) by BsonVisitor returns a value equal to
\* v, with the same variant at every position.
BridgeRoundTripIdentity ==
    (DecodedByBsonVisitor /\ IsPlain(input)) => (ret[1].ok /\ ret[1].val = input)

\* C21 as amended: for such a v the decode returns v with UInt64(n) in the place of
\* every UInt32(n) and every other position unchanged, so that the result equals v
\* exactly when no position of v holds a UInt32.
BridgeRoundTripWidensUInt32 ==
    (DecodedByBsonVisitor /\ IsPlain(input)) =>
        /\ ret[1].ok
        /\ ret[1].val = Widened(input)
        /\ (ret[1].val = input) <=> ~HasUInt32(input)

\* C21 witness: [Int32(7), UInt32(7)] came back as [Int32(7), UInt64(7)]
BridgeRoundTripWidensUInt32Witness ==
    /\ DecodedByBsonVisitor
    /\ input = Array(<<Int32(n7), UInt32(n7)>>)
    /\ call[1].m = "visit_seq"
    /\ ret[1] = Ok(Array(<<Int32(n7), UInt64(n7)>>))

\* the entries of the MapDeserializer as it was handed to the visitor
MapOrigin == call[1].arg.iter

\* the entry whose key the cursor popped last
LastPopped == MapOrigin[Len(MapOrigin) - Len(map[1].iter)]

\* one call of an arbitrary visitor on a MapDeserializer
MapTwoPhaseStep ==
    (pc = "map" /\ visitor = "Any" /\ map[1].kind = "MapDeserializer") =>
        /\ (op' = "next_value_seed" /\ ret'[1].ok) =>
              /\ Len(map[1].iter) < Len(MapOrigin)
              /\ yielded'[Len(yielded')].value = Some(LastPopped[2])
        /\ (op' = "next_key_seed" /\ map[1].value # None /\ map[1].iter # <<>>) =>
              \/ ~ret'[1].ok
              \/ map'[1] = map[1]

\* C22: on a MapDeserializer a successful next_value returns the value paired with the
\* most recently returned key, and a next_key requested while the value of the previous
\* key is still undelivered either reports the skip as an error or leaves the cursor
\* where it was: the undelivered value is never silently discarded.
MapTwoPhaseBothDirections == [][MapTwoPhaseStep]_vars

\* a variant method was called on the access that deserialize_enum built over the root
VariantCalled(m, tag) == op = m /\ pc = "done" /\ input.tag = tag

\* C23: over a bare string, unit_variant succeeds while newtype_variant_seed,
\* tuple_variant and struct_variant each fail with EndOfStream and reach no visitor
\* method and no cursor; over a single-entry document {variant: payload}, unit_variant
\* accepts a payload of any shape: it returns Ok(()) exactly when the payload decodes
\* as a generic Bson, and otherwise the error of that decode.
EnumEncodingAndStyle ==
    /\ VariantCalled("unit_variant", "String") => ret[1] = Ok(<<>>)
    /\ VariantCalled("newtype_variant_seed", "String") => ret[1] = EndOfStream
    /\ (VariantCalled("tuple_variant", "String") \/ VariantCalled("struct_variant", "String")) =>
          /\ call[1].m = "Err"
          /\ call[1].arg = EndOfStream
          /\ seq = None /\ map = None
    /\ VariantCalled("unit_variant", "Document") =>
          /\ ret[1].ok <=> ElementResult(input.payload[1][2], de.options).ok
          /\ ret[1].ok => ret[1].val = <<>>
          /\ ~ret[1].ok => ret[1] = ElementResult(input.payload[1][2], de.options)
          /\ IsPlain(input.payload[1][2]) => ret[1].ok
          /\ input.payload[1][2] = BadDoc =>
                (IsErr(ret[1], "InvalidValue") /\ ret[1].exp[1] = "64-bit signed integer as a string")

\* C23 witness: unit_variant on {"a": [7]} returned Ok(()), the array payload decoded
\* and discarded
EnumEncodingAndStyleWitness ==
    /\ VariantCalled("unit_variant", "Document")
    /\ input.payload[1][2] = Array(<<Int32(n7)>>)
    /\ ret[1] = Ok(<<>>)

====
